---- MODULE Spec2Model ----
(***************************************************************************)
(* A model of the NFT trading program (program-rust/src): the processor's  *)
(* ten instruction handlers acting on the ledger's accounts.               *)
(*                                                                         *)
(* The ledger is three maps: the wallets (system-owned accounts, of which  *)
(* only the lamports matter), the program-derived accounts (the platform   *)
(* state, and per (mint, user) a listing state, a listing vault, a bid     *)
(* state and a bid vault) and the users' own token accounts.               *)
(*                                                                         *)
(* The handlers work on records and instructions already decoded.  The     *)
(* byte formats (instruction.rs, state.rs) are modelled apart, on byte     *)
(* sequences: call is the last decode or encode applied, with its input    *)
(* and its output, and SpecCodec applies them to buffers and records.      *)
(*                                                                         *)
(* One request is one transaction holding one instruction: the handler     *)
(* runs on a working copy of the ledger and the host commits the copy when *)
(* the handler returns Ok and drops it otherwise; after a commit the host  *)
(* removes every account left with zero lamports.                          *)
(***************************************************************************)
EXTENDS Integers, Sequences, FiniteSets, TLC

VARIABLES wallets, pdas, tokens, owed, accepts, call

vars == <<wallets, pdas, tokens, owed, accepts, call>>

(***************************************************************************)
(* Bounds of the model.                                                    *)
(***************************************************************************)
\* lamports each wallet starts with
InitialLamports == 1000
\* successful AcceptBid requests in one behaviour
MaxAccepts == 2

Users == {"alice", "bob", "carol"}
Mints == {"M"}
\* the wallet that holds the asset unit at the start
FirstHolder == "alice"
\* an account that is not a mint of the token program, passed where a mint is expected
NotAMint == "notamint"
\* a mint of the token program that no token account of the model is for
OtherMint == "M2"
MintInputs == Mints \cup {NotAMint}
\* ask prices
Amounts == {80, 100}
\* what each wallet bids
BidAmounts(u) == IF u = "bob" THEN {80} ELSE {100}
\* platform fees
Fees == {0, 25}
\* the wallets that send Initialize, ChangeAuthority and ChangeFee in Spec, and
\* the fee they send
Admins == {"carol"}
AdminFees == {25}

(***************************************************************************)
(* Program constants.                                                      *)
(***************************************************************************)
STATESIZE == 49
LISTESCROWSTATE == 105
BIDESCROWSTATE == 72
\* spl_token::state::Account::LEN
TOKEN_ACCOUNT_LEN == 165

PROGRAM_ID == "program"
SPL_TOKEN_ID == "spl_token"
SYSTEM_PROGRAM_ID == "system_program"
\* Pubkey::new_from_array([0; 32])
ZERO_PUBKEY == "zero"

(***************************************************************************)
(* Address Deriver.  find_program_address is deterministic and collision   *)
(* free: the derived address is modelled by its seed tuple.                *)
(***************************************************************************)
find_program_address(seeds) == seeds

PlatformKey == find_program_address(<<"Platform", "State">>)
ListStateKey(mint, user) == find_program_address(<<mint, user, "List", "State">>)
ListVaultKey(mint, user) == find_program_address(<<mint, user, "List", "Vault">>)
BidStateKey(mint, user) == find_program_address(<<mint, user, "Bid", "State">>)
BidVaultKey(mint, user) == find_program_address(<<mint, user, "Bid", "Vault">>)

PdaKeys ==
    {PlatformKey}
      \cup {ListStateKey(m, u) : m \in Mints, u \in Users}
      \cup {ListVaultKey(m, u) : m \in Mints, u \in Users}
      \cup {BidStateKey(m, u) : m \in Mints, u \in Users}
      \cup {BidVaultKey(m, u) : m \in Mints, u \in Users}

\* a user's own token account for a mint
TokenKeys == Users \X Mints

(***************************************************************************)
(* Accounts.                                                               *)
(***************************************************************************)
\* an address nothing was ever created at
EmptyAccount == [lamports |-> 0, owner |-> SYSTEM_PROGRAM_ID, space |-> 0, data |-> <<>>]

\* the owner of the account passed as mint
MintOwner(key) ==
    IF key \in Mints \cup {OtherMint} THEN SPL_TOKEN_ID ELSE SYSTEM_PROGRAM_ID

Result(err, st) == [err |-> err, st |-> st]
Ok(st) == Result("Ok", st)

\* rent.minimum_balance(len): one lamport per byte, the 128 bytes of account
\* overhead included
minimum_balance(len) == 128 + len

(***************************************************************************)
(* Record Store: Pack::pack / Pack::unpack_unchecked, a record as the      *)
(* tuple of its fields, a bool as the byte 0 or 1.                         *)
(***************************************************************************)
BoolByte(b) == IF b THEN 1 ELSE 0

PlatformState_pack(r) ==
    <<BoolByte(r.is_initialized), r.authority, r.platform_fee, r.nonce>>

PlatformState_unpack(acc) ==
    IF acc.space /= STATESIZE THEN Result("InvalidAccountData", <<>>)
    ELSE IF acc.data[1] \notin {0, 1} THEN Result("InvalidAccountData", <<>>)
    ELSE Ok([is_initialized |-> acc.data[1] = 1, authority |-> acc.data[2],
             platform_fee |-> acc.data[3], nonce |-> acc.data[4]])

ListEscrowState_pack(r) ==
    <<r.lister, r.mint, r.amount, BoolByte(r.success), r.successful_buyer>>

ListEscrowState_unpack(acc) ==
    IF acc.space /= LISTESCROWSTATE THEN Result("InvalidAccountData", <<>>)
    ELSE IF acc.data[4] \notin {0, 1} THEN Result("InvalidAccountData", <<>>)
    ELSE Ok([lister |-> acc.data[1], mint |-> acc.data[2], amount |-> acc.data[3],
             success |-> acc.data[4] = 1, successful_buyer |-> acc.data[5]])

BidEscrowState_pack(r) == <<r.bidder, r.mint, r.amount>>

BidEscrowState_unpack(acc) ==
    IF acc.space /= BIDESCROWSTATE THEN Result("InvalidAccountData", <<>>)
    ELSE Ok([bidder |-> acc.data[1], mint |-> acc.data[2], amount |-> acc.data[3]])

\* the bytes of a freshly allocated account are all zero
ZeroData(space) ==
    IF space = STATESIZE THEN <<0, ZERO_PUBKEY, 0, 0>>
    ELSE IF space = LISTESCROWSTATE THEN <<ZERO_PUBKEY, ZERO_PUBKEY, 0, 0, ZERO_PUBKEY>>
    ELSE IF space = BIDESCROWSTATE THEN <<ZERO_PUBKEY, ZERO_PUBKEY, 0>>
    ELSE IF space = TOKEN_ACCOUNT_LEN THEN <<ZERO_PUBKEY, ZERO_PUBKEY, 0, 0>>
    ELSE <<>>

\* an account at an address the program did not derive: created by someone else
\* with the platform state's length, its bytes those of an initialized record
ForeignStateKey == <<"foreign", "state">>
ForeignStateAccount ==
    [lamports |-> minimum_balance(STATESIZE), owner |-> "other_program",
     space |-> STATESIZE, data |-> <<1, "alice", 0, 0>>]

\* the account an AccountInfo of the instruction refers to
account_info(st, key) == IF key = ForeignStateKey THEN ForeignStateAccount ELSE st.pdas[key]

\* Pack::pack into an account's data: the destination must have the record's length
pack_into(st, key, len, bytes) ==
    IF st.pdas[key].space /= len THEN Result("InvalidAccountData", st)
    ELSE Ok([st EXCEPT !.pdas[key].data = bytes])

(***************************************************************************)
(* The byte formats.  A buffer is a sequence of bytes, a Pubkey the        *)
(* sequence of its 32 bytes, a u64 a number.                               *)
(***************************************************************************)
\* the result of a decode: an error, or Ok with the value
Err(e) == Result(e, <<>>)

\* u64::from_be_bytes
RECURSIVE from_be_bytes(_)
from_be_bytes(bytes) ==
    IF bytes = <<>> THEN 0
    ELSE from_be_bytes(SubSeq(bytes, 1, Len(bytes) - 1)) * 256 + bytes[Len(bytes)]

\* the n low bytes of v, the most significant first
RECURSIVE be_bytes(_, _)
be_bytes(v, n) == IF n = 0 THEN <<>> ELSE Append(be_bytes(v \div 256, n - 1), v % 256)

\* u64::to_be_bytes
to_be_bytes(v) == be_bytes(v, 8)

\* unpack_amount that reads seven bytes of the eight
unpack_amount_seven_bytes(input) ==
    IF Len(input) < 8 THEN Err("FailedToUnpackU64")
    ELSE Ok(from_be_bytes(SubSeq(input, 1, 7)))

\* NFTInstruction::unpack_amount
unpack_amount(input) ==
    IF Len(input) < 8 THEN Err("FailedToUnpackU64")
    ELSE Ok(from_be_bytes(SubSeq(input, 1, 8)))

\* an instruction that carries one u64 and nothing else (opcodes 2, 3 and 5)
unpack_amount_only(op, rest) ==
    IF Len(rest) = 8
    THEN LET amount == unpack_amount(rest)
         IN IF amount.err /= "Ok" THEN amount
            ELSE IF op = "ChangeFee" THEN Ok([op |-> op, platform_fee |-> amount.st])
            ELSE Ok([op |-> op, amount |-> amount.st])
    ELSE Err("InvalidInstructionData")

\* NFTInstruction::unpack
NFTInstruction_unpack(input) ==
    IF input = <<>> THEN Err("InvalidInstruction")
    ELSE LET tag == Head(input)
             rest == Tail(input)
         IN CASE tag = 0 ->
                   IF Len(rest) < 32 THEN Err("InvalidAuthority")
                   ELSE LET authority_bytes_slice == SubSeq(rest, 1, 32)
                            fee_bytes == SubSeq(rest, 33, Len(rest))
                        IN IF Len(fee_bytes) = 8
                           THEN LET platform_fee == unpack_amount(fee_bytes)
                                IN IF platform_fee.err /= "Ok" THEN platform_fee
                                   ELSE Ok([op |-> "Initialize",
                                            authority |-> authority_bytes_slice,
                                            platform_fee |-> platform_fee.st])
                           ELSE Err("InvalidPlatformFee")
              [] tag = 1 ->
                   IF Len(rest) = 32
                   THEN Ok([op |-> "ChangeAuthority", authority |-> SubSeq(rest, 1, 32)])
                   ELSE Err("InvalidAuthority")
              [] tag = 2 -> unpack_amount_only("ChangeFee", rest)
              [] tag = 3 -> unpack_amount_only("List", rest)
              [] tag = 4 -> Ok([op |-> "DeList"])
              [] tag = 5 -> unpack_amount_only("Bid", rest)
              [] tag = 6 -> Ok([op |-> "WithdrawBid"])
              [] tag = 7 -> Ok([op |-> "AcceptBid"])
              [] tag = 8 -> Ok([op |-> "WithdrawNFTOnSuccess"])
              [] tag = 9 -> Ok([op |-> "RefundUser"])
              [] OTHER -> Err("InvalidInstruction")

\* PlatformState::pack_into_slice with the two numbers in each other's place
PlatformState_pack_into_slice_nonce_first(r) ==
    <<BoolByte(r.is_initialized)>> \o r.authority
        \o to_be_bytes(r.nonce) \o to_be_bytes(r.platform_fee)

\* PlatformState::pack_into_slice: the bytes written into a 49-byte destination
PlatformState_pack_into_slice(r) ==
    <<BoolByte(r.is_initialized)>> \o r.authority
        \o to_be_bytes(r.platform_fee) \o to_be_bytes(r.nonce)

\* PlatformState::unpack_from_slice that reads every byte but 0 as true
PlatformState_unpack_from_slice_any_bool(src) ==
    IF Len(src) < STATESIZE THEN Err("Panic")
    ELSE Ok([is_initialized |-> src[1] /= 0,
             authority |-> SubSeq(src, 2, 33),
             platform_fee |-> from_be_bytes(SubSeq(src, 34, 41)),
             nonce |-> from_be_bytes(SubSeq(src, 42, 49))])

\* PlatformState::unpack_from_slice: array_ref! takes the first 49 bytes and
\* panics when there are fewer
PlatformState_unpack_from_slice(src) ==
    IF Len(src) < STATESIZE THEN Err("Panic")
    ELSE IF src[1] \notin {0, 1} THEN Err("InvalidAccountData")
    ELSE Ok([is_initialized |-> src[1] = 1,
             authority |-> SubSeq(src, 2, 33),
             platform_fee |-> from_be_bytes(SubSeq(src, 34, 41)),
             nonce |-> from_be_bytes(SubSeq(src, 42, 49))])

\* Pack::unpack_unchecked, as the processor calls it on an account's data
PlatformState_unpack_unchecked(input) ==
    IF Len(input) /= STATESIZE THEN Err("InvalidAccountData")
    ELSE PlatformState_unpack_from_slice(input)

\* ListEscrowState::pack_into_slice
ListEscrowState_pack_into_slice(r) ==
    r.lister \o r.mint \o to_be_bytes(r.amount) \o <<BoolByte(r.success)>>
        \o r.successful_buyer

\* ListEscrowState::unpack_from_slice
ListEscrowState_unpack_from_slice(src) ==
    IF Len(src) < LISTESCROWSTATE THEN Err("Panic")
    ELSE IF src[73] \notin {0, 1} THEN Err("InvalidAccountData")
    ELSE Ok([lister |-> SubSeq(src, 1, 32),
             mint |-> SubSeq(src, 33, 64),
             amount |-> from_be_bytes(SubSeq(src, 65, 72)),
             success |-> src[73] = 1,
             successful_buyer |-> SubSeq(src, 74, 105)])

ListEscrowState_unpack_unchecked(input) ==
    IF Len(input) /= LISTESCROWSTATE THEN Err("InvalidAccountData")
    ELSE ListEscrowState_unpack_from_slice(input)

\* BidEscrowState::pack_into_slice
BidEscrowState_pack_into_slice(r) == r.bidder \o r.mint \o to_be_bytes(r.amount)

\* BidEscrowState::unpack_from_slice
BidEscrowState_unpack_from_slice(src) ==
    IF Len(src) < BIDESCROWSTATE THEN Err("Panic")
    ELSE Ok([bidder |-> SubSeq(src, 1, 32),
             mint |-> SubSeq(src, 33, 64),
             amount |-> from_be_bytes(SubSeq(src, 65, 72))])

BidEscrowState_unpack_unchecked(input) ==
    IF Len(input) /= BIDESCROWSTATE THEN Err("InvalidAccountData")
    ELSE BidEscrowState_unpack_from_slice(input)

(***************************************************************************)
(* The buffers and records the byte formats are applied to.                *)
(***************************************************************************)
\* Pubkeys: the zero key and one with 32 different bytes
KeyBytes == {[i \in 1..32 |-> 0], [i \in 1..32 |-> 7 * i]}
\* eight-byte fields, as bytes and as the numbers they stand for
U64Bytes == {<<0, 0, 0, 0, 0, 0, 0, 0>>, <<0, 0, 0, 0, 0, 0, 0, 100>>,
             <<0, 0, 0, 0, 1, 2, 3, 4>>, <<0, 0, 0, 0, 127, 255, 255, 255>>}
U64Values == {0, 100, 16909060, 2147483647}
\* the byte of a bool field: the two the format defines and two it does not
FlagBytes == {0, 1, 2, 255}
\* opcodes: the ten the program defines and two it does not
Tags == 0..10 \cup {255}

\* x one byte short, x one byte long, and nothing at all
WrongLengths(x) == {SubSeq(x, 1, Len(x) - 1), Append(x, 1), <<>>}

\* what follows the opcode: nothing, a u64, a key, a key and a u64, and each of
\* them one byte short and one byte long
InstructionBodies ==
    LET exact == U64Bytes \cup KeyBytes \cup {k \o f : k \in KeyBytes, f \in U64Bytes}
    IN {<<>>, <<0>>} \cup exact \cup UNION {WrongLengths(x) : x \in exact}

InstructionBuffers == {<<>>} \cup {<<tag>> \o body : tag \in Tags, body \in InstructionBodies}

PlatformStates ==
    [is_initialized : BOOLEAN, authority : KeyBytes,
     platform_fee : U64Values, nonce : {0, 100}]
ListEscrowStates ==
    [lister : KeyBytes, mint : KeyBytes, amount : U64Values, success : BOOLEAN,
     successful_buyer : KeyBytes]
BidEscrowStates == [bidder : KeyBytes, mint : KeyBytes, amount : U64Values]

\* account data of each record's length, the bool byte any of FlagBytes
PlatformBytes ==
    {<<b>> \o k \o f \o n : b \in FlagBytes, k \in KeyBytes, f \in U64Bytes,
                            n \in {<<0, 0, 0, 0, 0, 0, 0, 0>>, <<0, 0, 0, 0, 0, 0, 1, 0>>}}
ListEscrowBytes ==
    {l \o m \o a \o <<b>> \o k : l \in KeyBytes, m \in {[i \in 1..32 |-> 255]},
                                 a \in U64Bytes, b \in FlagBytes, k \in KeyBytes}
BidEscrowBytes == {b \o m \o a : b \in KeyBytes, m \in KeyBytes, a \in U64Bytes}

\* data of another length: some of the above one byte short or long, and none
PlatformBuffers ==
    PlatformBytes \cup UNION {WrongLengths(x) : x \in {y \in PlatformBytes : y[49] = 0}}
ListEscrowBuffers ==
    ListEscrowBytes
      \cup UNION {WrongLengths(x) : x \in {y \in ListEscrowBytes : y[72] = 100}}
BidEscrowBuffers ==
    BidEscrowBytes \cup UNION {WrongLengths(x) : x \in BidEscrowBytes}

\* nothing decoded or encoded yet
NoCall == [fn |-> "none", input |-> <<>>, output |-> <<>>]
Called(fn, input, output) == [fn |-> fn, input |-> input, output |-> output]

(***************************************************************************)
(* The ledger a handler works on: st.wallets, st.pdas, st.tokens.          *)
(***************************************************************************)
State == [wallets |-> wallets, pdas |-> pdas, tokens |-> tokens]

(***************************************************************************)
(* System program, as the handlers invoke it.                              *)
(***************************************************************************)
\* create_account that does not refuse an address already in use
create_account_no_in_use_check(st, from, to, lamports, space, owner) ==
    IF st.wallets[from] < lamports THEN Result("InsufficientLamports", st)
    ELSE Ok([st EXCEPT !.wallets[from] = @ - lamports,
                       !.pdas[to] = [lamports |-> lamports, owner |-> owner,
                                     space |-> space, data |-> ZeroData(space)]])

\* system_instruction::create_account(from, to, lamports, space, owner), the
\* new address signed for by the handler's seeds
create_account(st, from, to, lamports, space, owner) ==
    IF st.pdas[to].lamports > 0 \/ st.pdas[to].space /= 0
          \/ st.pdas[to].owner /= SYSTEM_PROGRAM_ID
    THEN Result("AccountAlreadyInUse", st)
    ELSE IF st.wallets[from] < lamports THEN Result("InsufficientLamports", st)
    ELSE Ok([st EXCEPT !.wallets[from] = @ - lamports,
                       !.pdas[to] = [lamports |-> lamports, owner |-> owner,
                                     space |-> space, data |-> ZeroData(space)]])

\* transfer that credits the destination without debiting the source
system_transfer_no_debit(st, from, to, lamports) ==
    IF st.wallets[from] < lamports THEN Result("InsufficientLamports", st)
    ELSE Ok([st EXCEPT !.pdas[to].lamports = @ + lamports])

\* system_instruction::transfer(from, to, lamports)
system_transfer(st, from, to, lamports) ==
    IF st.wallets[from] < lamports THEN Result("InsufficientLamports", st)
    ELSE Ok([st EXCEPT !.wallets[from] = @ - lamports,
                       !.pdas[to].lamports = @ + lamports])

(***************************************************************************)
(* Token program, as the handlers invoke it.  A vault's data is the tuple  *)
(* <<mint, owner, amount, state>>, state 1 once initialized.               *)
(***************************************************************************)
IsTokenAccount(acc) ==
    acc.owner = SPL_TOKEN_ID /\ acc.space = TOKEN_ACCOUNT_LEN /\ acc.data[4] = 1

\* spl_token::instruction::initialize_account(account, mint, owner)
initialize_account(st, account, mint, owner) ==
    IF st.pdas[account].owner /= SPL_TOKEN_ID \/ st.pdas[account].space /= TOKEN_ACCOUNT_LEN
    THEN Result("InvalidAccountData", st)
    ELSE IF st.pdas[account].data[4] /= 0 THEN Result("AlreadyInUse", st)
    ELSE Ok([st EXCEPT !.pdas[account].data = <<mint, owner, 0, 1>>])

\* transfer_checked that credits the destination without debiting the source
transfer_checked_in_no_debit(st, source, mint, destination, authority, amount) ==
    IF ~IsTokenAccount(st.pdas[destination]) THEN Result("InvalidAccountData", st)
    ELSE IF st.tokens[source].amount < amount THEN Result("TokenInsufficientFunds", st)
    ELSE IF st.tokens[source].mint /= mint \/ st.pdas[destination].data[1] /= mint
    THEN Result("MintMismatch", st)
    ELSE IF st.tokens[source].owner /= authority THEN Result("OwnerMismatch", st)
    ELSE Ok([st EXCEPT !.pdas[destination].data[3] = @ + amount])

\* spl_token::instruction::transfer_checked(source, mint, destination, authority, amount)
\* from a user's token account into a vault, the authority a signing wallet
transfer_checked_in(st, source, mint, destination, authority, amount) ==
    IF ~IsTokenAccount(st.pdas[destination]) THEN Result("InvalidAccountData", st)
    ELSE IF st.tokens[source].amount < amount THEN Result("TokenInsufficientFunds", st)
    ELSE IF st.tokens[source].mint /= mint \/ st.pdas[destination].data[1] /= mint
    THEN Result("MintMismatch", st)
    ELSE IF st.tokens[source].owner /= authority THEN Result("OwnerMismatch", st)
    ELSE Ok([st EXCEPT !.tokens[source].amount = @ - amount,
                       !.pdas[destination].data[3] = @ + amount])

\* spl_token::instruction::transfer(source, destination, authority, amount) out of
\* a vault into a user's token account; signed is the address the handler's
\* seeds sign for
transfer_out(st, source, destination, authority, signed, amount) ==
    IF ~IsTokenAccount(st.pdas[source]) THEN Result("InvalidAccountData", st)
    ELSE IF st.pdas[source].data[3] < amount THEN Result("TokenInsufficientFunds", st)
    ELSE IF st.pdas[source].data[1] /= st.tokens[destination].mint
    THEN Result("MintMismatch", st)
    ELSE IF st.pdas[source].data[2] /= authority THEN Result("OwnerMismatch", st)
    ELSE IF authority /= signed THEN Result("MissingRequiredSignature", st)
    ELSE Ok([st EXCEPT !.pdas[source].data[3] = @ - amount,
                       !.tokens[destination].amount = @ + amount])

\* spl_token::instruction::transfer_checked out of a vault: transfer, the mint
\* named in the instruction checked too
transfer_checked_out(st, source, mint, destination, authority, signed, amount) ==
    IF ~IsTokenAccount(st.pdas[source]) THEN Result("InvalidAccountData", st)
    ELSE IF st.pdas[source].data[1] /= mint THEN Result("MintMismatch", st)
    ELSE transfer_out(st, source, destination, authority, signed, amount)

\* close_account that removes the account without crediting its lamports to the
\* destination
close_account_drops_reserve(st, account, destination, owner, signed) ==
    IF ~IsTokenAccount(st.pdas[account]) THEN Result("InvalidAccountData", st)
    ELSE IF st.pdas[account].data[3] /= 0 THEN Result("NonNativeHasBalance", st)
    ELSE IF st.pdas[account].data[2] /= owner THEN Result("OwnerMismatch", st)
    ELSE IF owner /= signed THEN Result("MissingRequiredSignature", st)
    ELSE Ok([st EXCEPT !.pdas[account] = EmptyAccount])

\* spl_token::instruction::close_account(account, destination, owner)
close_account(st, account, destination, owner, signed) ==
    IF ~IsTokenAccount(st.pdas[account]) THEN Result("InvalidAccountData", st)
    ELSE IF st.pdas[account].data[3] /= 0 THEN Result("NonNativeHasBalance", st)
    ELSE IF st.pdas[account].data[2] /= owner THEN Result("OwnerMismatch", st)
    ELSE IF owner /= signed THEN Result("MissingRequiredSignature", st)
    ELSE Ok([st EXCEPT !.pdas[destination].lamports = @ + st.pdas[account].lamports,
                       !.pdas[account] = EmptyAccount])

(***************************************************************************)
(* Processor: the handlers.  acc is the instruction's account list, its    *)
(* fields named as the handler names them.                                 *)
(***************************************************************************)
process_list(st, acc, amount) ==
    IF ~acc.is_signer THEN Result("MissingRequiredSignature", st)
    ELSE IF st.tokens[acc.token_account].owner /= acc.initializer
    THEN Result("InvalidAccountData", st)
    ELSE IF MintOwner(acc.mint) /= SPL_TOKEN_ID THEN Result("InvalidAccountData", st)
    ELSE IF st.tokens[acc.token_account].mint /= acc.mint
    THEN Result("InvalidAccountData", st)
    ELSE IF acc.program /= PROGRAM_ID THEN Result("InvalidAccountData", st)
    ELSE IF acc.token_program /= SPL_TOKEN_ID THEN Result("InvalidAccountData", st)
    ELSE IF acc.system_program /= SYSTEM_PROGRAM_ID THEN Result("InvalidAccountData", st)
    ELSE LET escrow_state_account_pubkey == ListStateKey(acc.mint, acc.initializer)
             escrow_vault_account_pubkey == ListVaultKey(acc.mint, acc.initializer)
         IN
         IF acc.escrow_state /= escrow_state_account_pubkey
         THEN Result("InvalidAccountData", st)
         ELSE LET r1 == create_account(st, acc.initializer, escrow_state_account_pubkey,
                                       minimum_balance(LISTESCROWSTATE), LISTESCROWSTATE,
                                       PROGRAM_ID)
         IN
         IF r1.err /= "Ok" THEN r1
         ELSE IF acc.escrow_vault /= escrow_vault_account_pubkey
         THEN Result("InvalidAccountData", r1.st)
         ELSE LET r2 == create_account(r1.st, acc.initializer, escrow_vault_account_pubkey,
                                       minimum_balance(TOKEN_ACCOUNT_LEN), TOKEN_ACCOUNT_LEN,
                                       SPL_TOKEN_ID)
         IN
         IF r2.err /= "Ok" THEN r2
         ELSE LET r3 == initialize_account(r2.st, escrow_vault_account_pubkey, acc.mint,
                                           escrow_state_account_pubkey)
         IN
         IF r3.err /= "Ok" THEN r3
         ELSE LET r4 == transfer_checked_in(r3.st, acc.token_account, acc.mint,
                                            escrow_vault_account_pubkey, acc.initializer, 1)
         IN
         IF r4.err /= "Ok" THEN r4
         ELSE pack_into(r4.st, acc.escrow_state, LISTESCROWSTATE,
                        ListEscrowState_pack([lister |-> acc.initializer,
                                              amount |-> amount,
                                              mint |-> acc.mint,
                                              success |-> FALSE,
                                              successful_buyer |-> ZERO_PUBKEY]))

\* process_delist that takes the listing accounts as passed, without comparing
\* them with the addresses derived from the signer
process_delist_unchecked_keys(st, acc) ==
    IF ~acc.is_signer THEN Result("MissingRequiredSignature", st)
    ELSE IF st.tokens[acc.token_account].owner /= acc.signer
    THEN Result("InvalidAccountData", st)
    ELSE IF MintOwner(acc.mint) /= SPL_TOKEN_ID THEN Result("InvalidAccountData", st)
    ELSE IF acc.program /= PROGRAM_ID THEN Result("InvalidAccountData", st)
    ELSE IF acc.token_program /= SPL_TOKEN_ID THEN Result("InvalidAccountData", st)
    ELSE LET r1 == transfer_out(st, acc.escrow_vault, acc.token_account,
                                acc.escrow_state, acc.escrow_state, 1)
         IN
         IF r1.err /= "Ok" THEN r1
         ELSE LET r2 == close_account(r1.st, acc.escrow_vault, acc.escrow_state,
                                      acc.escrow_state, acc.escrow_state)
         IN
         IF r2.err /= "Ok" THEN r2
         ELSE LET lamports == r2.st.pdas[acc.escrow_state].lamports
              IN Ok([r2.st EXCEPT !.pdas[acc.escrow_state].lamports = 0,
                                  !.wallets[acc.signer] = @ + lamports])

process_delist(st, acc) ==
    IF ~acc.is_signer THEN Result("MissingRequiredSignature", st)
    ELSE IF st.tokens[acc.token_account].owner /= acc.signer
    THEN Result("InvalidAccountData", st)
    ELSE IF MintOwner(acc.mint) /= SPL_TOKEN_ID THEN Result("InvalidAccountData", st)
    ELSE IF acc.program /= PROGRAM_ID THEN Result("InvalidAccountData", st)
    ELSE IF acc.token_program /= SPL_TOKEN_ID THEN Result("InvalidAccountData", st)
    ELSE LET escrow_state_account_pubkey == ListStateKey(acc.mint, acc.signer)
             escrow_vault_account_pubkey == ListVaultKey(acc.mint, acc.signer)
         IN
         IF acc.escrow_state /= escrow_state_account_pubkey
         THEN Result("InvalidAccountData", st)
         ELSE IF acc.escrow_vault /= escrow_vault_account_pubkey
         THEN Result("InvalidAccountData", st)
         ELSE LET r1 == transfer_out(st, escrow_vault_account_pubkey, acc.token_account,
                                     escrow_state_account_pubkey,
                                     escrow_state_account_pubkey, 1)
         IN
         IF r1.err /= "Ok" THEN r1
         ELSE LET r2 == close_account(r1.st, escrow_vault_account_pubkey,
                                      escrow_state_account_pubkey,
                                      escrow_state_account_pubkey,
                                      escrow_state_account_pubkey)
         IN
         IF r2.err /= "Ok" THEN r2
         ELSE LET lamports == r2.st.pdas[acc.escrow_state].lamports
              IN Ok([r2.st EXCEPT !.pdas[acc.escrow_state].lamports = 0,
                                  !.wallets[acc.signer] = @ + lamports])

\* process_bid that refuses a mint no listing exists for
process_bid_needs_listing(st, acc, amount) ==
    IF ~acc.is_signer THEN Result("MissingRequiredSignature", st)
    ELSE IF MintOwner(acc.mint) /= SPL_TOKEN_ID THEN Result("InvalidAccountData", st)
    ELSE IF acc.program /= PROGRAM_ID THEN Result("InvalidAccountData", st)
    ELSE IF acc.system_program /= SYSTEM_PROGRAM_ID THEN Result("InvalidAccountData", st)
    ELSE IF \A s \in Users : st.pdas[ListStateKey(acc.mint, s)].space /= LISTESCROWSTATE
    THEN Result("InvalidAccountData", st)
    ELSE LET escrow_state_account_pubkey == BidStateKey(acc.mint, acc.initializer)
             escrow_vault_account_pubkey == BidVaultKey(acc.mint, acc.initializer)
         IN
         IF acc.escrow_state /= escrow_state_account_pubkey
         THEN Result("InvalidAccountData", st)
         ELSE LET r1 == create_account(st, acc.initializer, escrow_state_account_pubkey,
                                       minimum_balance(BIDESCROWSTATE), BIDESCROWSTATE,
                                       PROGRAM_ID)
         IN
         IF r1.err /= "Ok" THEN r1
         ELSE IF acc.escrow_vault /= escrow_vault_account_pubkey
         THEN Result("InvalidAccountData", r1.st)
         ELSE LET r2 == create_account(r1.st, acc.initializer, escrow_vault_account_pubkey,
                                       minimum_balance(0), 0, PROGRAM_ID)
         IN
         IF r2.err /= "Ok" THEN r2
         ELSE LET r3 == system_transfer(r2.st, acc.initializer,
                                        escrow_vault_account_pubkey, amount)
         IN
         IF r3.err /= "Ok" THEN r3
         ELSE pack_into(r3.st, acc.escrow_state, BIDESCROWSTATE,
                        BidEscrowState_pack([bidder |-> acc.initializer,
                                             amount |-> amount,
                                             mint |-> acc.mint]))

process_bid(st, acc, amount) ==
    IF ~acc.is_signer THEN Result("MissingRequiredSignature", st)
    ELSE IF MintOwner(acc.mint) /= SPL_TOKEN_ID THEN Result("InvalidAccountData", st)
    ELSE IF acc.program /= PROGRAM_ID THEN Result("InvalidAccountData", st)
    ELSE IF acc.system_program /= SYSTEM_PROGRAM_ID THEN Result("InvalidAccountData", st)
    ELSE LET escrow_state_account_pubkey == BidStateKey(acc.mint, acc.initializer)
             escrow_vault_account_pubkey == BidVaultKey(acc.mint, acc.initializer)
         IN
         IF acc.escrow_state /= escrow_state_account_pubkey
         THEN Result("InvalidAccountData", st)
         ELSE LET r1 == create_account(st, acc.initializer, escrow_state_account_pubkey,
                                       minimum_balance(BIDESCROWSTATE), BIDESCROWSTATE,
                                       PROGRAM_ID)
         IN
         IF r1.err /= "Ok" THEN r1
         ELSE IF acc.escrow_vault /= escrow_vault_account_pubkey
         THEN Result("InvalidAccountData", r1.st)
         ELSE LET r2 == create_account(r1.st, acc.initializer, escrow_vault_account_pubkey,
                                       minimum_balance(0), 0, PROGRAM_ID)
         IN
         IF r2.err /= "Ok" THEN r2
         ELSE LET r3 == system_transfer(r2.st, acc.initializer,
                                        escrow_vault_account_pubkey, amount)
         IN
         IF r3.err /= "Ok" THEN r3
         ELSE pack_into(r3.st, acc.escrow_state, BIDESCROWSTATE,
                        BidEscrowState_pack([bidder |-> acc.initializer,
                                             amount |-> amount,
                                             mint |-> acc.mint]))

\* withdraw_bid_disburse that leaves the vault's lamports in the vault
withdraw_bid_disburse_keeps_vault(st, acc) ==
    LET lamports == st.pdas[acc.escrow_state].lamports + st.pdas[acc.escrow_vault].lamports
    IN [st EXCEPT !.pdas[acc.escrow_state].lamports = 0,
                  !.wallets[acc.signer] = @ + lamports]

\* the lamports of both bid accounts go to the signer
withdraw_bid_disburse(st, acc) ==
    LET lamports == st.pdas[acc.escrow_state].lamports + st.pdas[acc.escrow_vault].lamports
    IN [st EXCEPT !.pdas[acc.escrow_state].lamports = 0,
                  !.pdas[acc.escrow_vault].lamports = 0,
                  !.wallets[acc.signer] = @ + lamports]

\* process_withdraw_bid that refuses while a listing of the mint is settled
process_withdraw_bid_locked_once_settled(st, acc) ==
    IF ~acc.is_signer THEN Result("MissingRequiredSignature", st)
    ELSE IF MintOwner(acc.mint) /= SPL_TOKEN_ID THEN Result("InvalidAccountData", st)
    ELSE IF acc.program /= PROGRAM_ID THEN Result("InvalidAccountData", st)
    ELSE IF acc.escrow_state /= BidStateKey(acc.mint, acc.signer)
    THEN Result("InvalidAccountData", st)
    ELSE IF acc.escrow_vault /= BidVaultKey(acc.mint, acc.signer)
    THEN Result("InvalidAccountData", st)
    ELSE IF \E s \in Users : /\ st.pdas[ListStateKey(acc.mint, s)].space = LISTESCROWSTATE
                             /\ st.pdas[ListStateKey(acc.mint, s)].data[4] = 1
    THEN Result("InvalidAccountData", st)
    ELSE Ok(withdraw_bid_disburse(st, acc))

\* process_withdraw_bid that takes the bid accounts as passed, without comparing
\* them with the addresses derived from the signer
process_withdraw_bid_unchecked_keys(st, acc) ==
    IF ~acc.is_signer THEN Result("MissingRequiredSignature", st)
    ELSE IF MintOwner(acc.mint) /= SPL_TOKEN_ID THEN Result("InvalidAccountData", st)
    ELSE IF acc.program /= PROGRAM_ID THEN Result("InvalidAccountData", st)
    ELSE Ok(withdraw_bid_disburse(st, acc))

process_withdraw_bid(st, acc) ==
    IF ~acc.is_signer THEN Result("MissingRequiredSignature", st)
    ELSE IF MintOwner(acc.mint) /= SPL_TOKEN_ID THEN Result("InvalidAccountData", st)
    ELSE IF acc.program /= PROGRAM_ID THEN Result("InvalidAccountData", st)
    ELSE IF acc.escrow_state /= BidStateKey(acc.mint, acc.signer)
    THEN Result("InvalidAccountData", st)
    ELSE IF acc.escrow_vault /= BidVaultKey(acc.mint, acc.signer)
    THEN Result("InvalidAccountData", st)
    ELSE Ok(withdraw_bid_disburse(st, acc))

\* accept_bid_seller_check that derives the listing accounts from the lister the
\* record names and never compares that lister with the signer
accept_bid_seller_check_unbound(st, acc) ==
    LET list_state == ListEscrowState_unpack(st.pdas[acc.escrow_list_state])
    IN IF list_state.err /= "Ok" THEN list_state.err
       ELSE IF acc.escrow_list_state /= ListStateKey(acc.mint, list_state.st.lister)
       THEN "InvalidAccountData"
       ELSE IF acc.escrow_list_vault /= ListVaultKey(acc.mint, list_state.st.lister)
       THEN "InvalidAccountData"
       ELSE "Ok"

\* the listing accounts are the ones derived from the signer, and the record in
\* the listing state names the signer as lister
accept_bid_seller_check(st, acc) ==
    IF acc.escrow_list_state /= ListStateKey(acc.mint, acc.signer) THEN "InvalidAccountData"
    ELSE IF acc.escrow_list_vault /= ListVaultKey(acc.mint, acc.signer)
    THEN "InvalidAccountData"
    ELSE LET list_state == ListEscrowState_unpack(st.pdas[acc.escrow_list_state])
         IN IF list_state.err /= "Ok" THEN list_state.err
            ELSE IF list_state.st.lister /= acc.signer THEN "InvalidAccountData"
            ELSE "Ok"

\* accept_bid_settle that keeps the ask price in the record
accept_bid_settle_keeps_ask(list_state, bid_state, acc) ==
    [list_state EXCEPT !.success = TRUE,
                       !.successful_buyer = acc.bidder]

\* the listing record AcceptBid writes
accept_bid_settle(list_state, bid_state, acc) ==
    [list_state EXCEPT !.amount = bid_state.amount,
                       !.success = TRUE,
                       !.successful_buyer = acc.bidder]

\* accept_bid_disburse that returns the whole balance to the bidder
accept_bid_disburse_full_refund(st, acc, bid_state) ==
    LET total_lamports == st.pdas[acc.escrow_bid_vault].lamports
                            + st.pdas[acc.escrow_bid_state].lamports
        s2 == [st EXCEPT !.pdas[acc.escrow_bid_state].lamports = 0,
                         !.pdas[acc.escrow_bid_vault].lamports = 0,
                         !.wallets[acc.signer] = @ + bid_state.amount]
    IN Ok([s2 EXCEPT !.wallets[acc.bidder] = @ + total_lamports])

\* accept_bid_disburse that counts the vault's lamports only
accept_bid_disburse_vault_only(st, acc, bid_state) ==
    LET total_lamports == st.pdas[acc.escrow_bid_vault].lamports
        s2 == [st EXCEPT !.pdas[acc.escrow_bid_state].lamports = 0,
                         !.pdas[acc.escrow_bid_vault].lamports = 0,
                         !.wallets[acc.signer] = @ + bid_state.amount]
    IN IF total_lamports < bid_state.amount THEN Result("ArithmeticOverflow", st)
       ELSE Ok([s2 EXCEPT !.wallets[acc.bidder] = @ + (total_lamports - bid_state.amount)])

\* accept_bid_disburse that keeps the platform fee out of the seller's payment and
\* leaves it with the bidder
accept_bid_disburse_takes_fee(st, acc, bid_state) ==
    LET total_lamports == st.pdas[acc.escrow_bid_vault].lamports
                            + st.pdas[acc.escrow_bid_state].lamports
        fee == IF st.pdas[PlatformKey].space = STATESIZE
               THEN st.pdas[PlatformKey].data[3] ELSE 0
        paid == IF bid_state.amount < fee THEN 0 ELSE bid_state.amount - fee
        s2 == [st EXCEPT !.pdas[acc.escrow_bid_state].lamports = 0,
                         !.pdas[acc.escrow_bid_vault].lamports = 0,
                         !.wallets[acc.signer] = @ + paid]
    IN IF total_lamports < paid THEN Result("ArithmeticOverflow", st)
       ELSE Ok([s2 EXCEPT !.wallets[acc.bidder] = @ + (total_lamports - paid)])

\* the bid accounts are emptied: the bid amount to the signer, the rest to the bidder
accept_bid_disburse(st, acc, bid_state) ==
    LET total_lamports == st.pdas[acc.escrow_bid_vault].lamports
                            + st.pdas[acc.escrow_bid_state].lamports
        s2 == [st EXCEPT !.pdas[acc.escrow_bid_state].lamports = 0,
                         !.pdas[acc.escrow_bid_vault].lamports = 0,
                         !.wallets[acc.signer] = @ + bid_state.amount]
    IN \* total_lamports - bid_state.amount below zero: the u64 subtraction fails
       IF total_lamports < bid_state.amount THEN Result("ArithmeticOverflow", st)
       ELSE Ok([s2 EXCEPT !.wallets[acc.bidder] = @ + (total_lamports - bid_state.amount)])

process_accept_bid(st, acc) ==
    IF ~acc.is_signer THEN Result("MissingRequiredSignature", st)
    ELSE IF MintOwner(acc.mint) /= SPL_TOKEN_ID THEN Result("InvalidAccountData", st)
    ELSE IF acc.escrow_bid_state /= BidStateKey(acc.mint, acc.bidder)
    THEN Result("InvalidAccountData", st)
    ELSE IF acc.escrow_bid_vault /= BidVaultKey(acc.mint, acc.bidder)
    THEN Result("InvalidAccountData", st)
    ELSE IF accept_bid_seller_check(st, acc) /= "Ok"
    THEN Result(accept_bid_seller_check(st, acc), st)
    ELSE LET list_state == ListEscrowState_unpack(st.pdas[acc.escrow_list_state])
             bid_state == BidEscrowState_unpack(st.pdas[acc.escrow_bid_state])
         IN
         IF bid_state.err /= "Ok" THEN Result(bid_state.err, st)
         ELSE IF bid_state.st.bidder /= acc.bidder THEN Result("InvalidAccountData", st)
         ELSE LET r1 == pack_into(st, acc.escrow_list_state, LISTESCROWSTATE,
                            ListEscrowState_pack(
                                accept_bid_settle(list_state.st, bid_state.st, acc)))
         IN
         IF r1.err /= "Ok" THEN r1
         ELSE accept_bid_disburse(r1.st, acc, bid_state.st)

\* withdraw_nft_state_check that does not compare the signer with the buyer
withdraw_nft_state_check_any_signer(list_state, acc) ==
    IF list_state.lister /= acc.lister THEN "InvalidAccountData"
    ELSE IF ~list_state.success THEN "InvalidAccountData"
    ELSE "Ok"

\* the record names the lister passed, the listing succeeded, and the signer is
\* its successful buyer
withdraw_nft_state_check(list_state, acc) ==
    IF list_state.lister /= acc.lister THEN "InvalidAccountData"
    ELSE IF ~list_state.success THEN "InvalidAccountData"
    ELSE IF list_state.successful_buyer /= acc.signer THEN "InvalidAccountData"
    ELSE "Ok"

process_withdraw_nft_on_success(st, acc) ==
    IF ~acc.is_signer THEN Result("MissingRequiredSignature", st)
    ELSE IF st.tokens[acc.token_account].owner /= acc.signer
    THEN Result("InvalidAccountData", st)
    ELSE IF MintOwner(acc.mint) /= SPL_TOKEN_ID THEN Result("InvalidAccountData", st)
    ELSE IF st.tokens[acc.token_account].mint /= acc.mint
    THEN Result("InvalidAccountData", st)
    ELSE LET escrow_list_state_account_pubkey == ListStateKey(acc.mint, acc.lister)
             escrow_list_vault_account_pubkey == ListVaultKey(acc.mint, acc.lister)
         IN
         IF acc.escrow_list_state /= escrow_list_state_account_pubkey
         THEN Result("InvalidAccountData", st)
         ELSE IF acc.escrow_list_vault /= escrow_list_vault_account_pubkey
         THEN Result("InvalidAccountData", st)
         ELSE IF acc.token_program /= SPL_TOKEN_ID THEN Result("InvalidAccountData", st)
         ELSE LET list_state == ListEscrowState_unpack(st.pdas[acc.escrow_list_state])
         IN
         IF list_state.err /= "Ok" THEN Result(list_state.err, st)
         ELSE IF withdraw_nft_state_check(list_state.st, acc) /= "Ok"
         THEN Result(withdraw_nft_state_check(list_state.st, acc), st)
         ELSE LET r1 == transfer_checked_out(st, escrow_list_vault_account_pubkey, acc.mint,
                                             acc.token_account,
                                             escrow_list_state_account_pubkey,
                                             escrow_list_state_account_pubkey, 1)
         IN
         IF r1.err /= "Ok" THEN r1
         ELSE LET r2 == close_account(r1.st, escrow_list_vault_account_pubkey,
                                      escrow_list_state_account_pubkey,
                                      escrow_list_state_account_pubkey,
                                      escrow_list_state_account_pubkey)
         IN
         IF r2.err /= "Ok" THEN r2
         ELSE LET lamports == r2.st.pdas[acc.escrow_list_state].lamports
              IN Ok([r2.st EXCEPT !.pdas[acc.escrow_list_state].lamports = 0,
                                  !.wallets[acc.lister] = @ + lamports])

\* process_refund that does not compare the signer with the platform's authority
process_refund_any_signer(st, acc) ==
    IF ~acc.is_signer THEN Result("MissingRequiredSignature", st)
    ELSE IF MintOwner(acc.mint) /= SPL_TOKEN_ID THEN Result("InvalidAccountData", st)
    ELSE IF acc.state_account /= PlatformKey THEN Result("InvalidAccountData", st)
    ELSE LET state_info == PlatformState_unpack(st.pdas[acc.state_account])
         IN
         IF state_info.err /= "Ok" THEN Result(state_info.err, st)
         ELSE IF ~state_info.st.is_initialized THEN Result("UninitializedAccount", st)
         ELSE IF acc.escrow_bid_state /= BidStateKey(acc.mint, acc.bidder)
         THEN Result("InvalidAccountData", st)
         ELSE IF acc.escrow_bid_vault /= BidVaultKey(acc.mint, acc.bidder)
         THEN Result("InvalidAccountData", st)
         ELSE LET lamports == st.pdas[acc.escrow_bid_state].lamports
                                + st.pdas[acc.escrow_bid_vault].lamports
              IN Ok([st EXCEPT !.pdas[acc.escrow_bid_state].lamports = 0,
                               !.pdas[acc.escrow_bid_vault].lamports = 0,
                               !.wallets[acc.bidder] = @ + lamports])

process_refund(st, acc) ==
    IF ~acc.is_signer THEN Result("MissingRequiredSignature", st)
    ELSE IF MintOwner(acc.mint) /= SPL_TOKEN_ID THEN Result("InvalidAccountData", st)
    ELSE IF acc.state_account /= PlatformKey THEN Result("InvalidAccountData", st)
    ELSE LET state_info == PlatformState_unpack(st.pdas[acc.state_account])
         IN
         IF state_info.err /= "Ok" THEN Result(state_info.err, st)
         ELSE IF ~state_info.st.is_initialized THEN Result("UninitializedAccount", st)
         ELSE IF state_info.st.authority /= acc.signer THEN Result("InvalidAuthority", st)
         ELSE IF acc.escrow_bid_state /= BidStateKey(acc.mint, acc.bidder)
         THEN Result("InvalidAccountData", st)
         ELSE IF acc.escrow_bid_vault /= BidVaultKey(acc.mint, acc.bidder)
         THEN Result("InvalidAccountData", st)
         ELSE LET lamports == st.pdas[acc.escrow_bid_state].lamports
                                + st.pdas[acc.escrow_bid_vault].lamports
              IN Ok([st EXCEPT !.pdas[acc.escrow_bid_state].lamports = 0,
                               !.pdas[acc.escrow_bid_vault].lamports = 0,
                               !.wallets[acc.bidder] = @ + lamports])

\* process_init_platform that does not look at the initializer's signature
process_init_platform_no_signature_check(st, acc, authority, platform_fee) ==
    IF acc.program /= PROGRAM_ID THEN Result("InvalidAccountData", st)
    ELSE IF acc.system_program /= SYSTEM_PROGRAM_ID THEN Result("InvalidAccountData", st)
    ELSE IF acc.state_account /= PlatformKey THEN Result("InvalidAccountData", st)
    ELSE LET r1 == create_account(st, acc.initializer, PlatformKey,
                                  minimum_balance(STATESIZE), STATESIZE, PROGRAM_ID)
         IN
         IF r1.err /= "Ok" THEN r1
         ELSE pack_into(r1.st, acc.state_account, STATESIZE,
                        PlatformState_pack([is_initialized |-> TRUE,
                                            authority |-> authority,
                                            platform_fee |-> platform_fee,
                                            nonce |-> 0]))

\* process_init_platform that records the signer as the authority
process_init_platform_signer_as_authority(st, acc, authority, platform_fee) ==
    IF ~acc.is_signer THEN Result("MissingRequiredSignature", st)
    ELSE IF acc.program /= PROGRAM_ID THEN Result("InvalidAccountData", st)
    ELSE IF acc.system_program /= SYSTEM_PROGRAM_ID THEN Result("InvalidAccountData", st)
    ELSE IF acc.state_account /= PlatformKey THEN Result("InvalidAccountData", st)
    ELSE LET r1 == create_account(st, acc.initializer, PlatformKey,
                                  minimum_balance(STATESIZE), STATESIZE, PROGRAM_ID)
         IN
         IF r1.err /= "Ok" THEN r1
         ELSE pack_into(r1.st, acc.state_account, STATESIZE,
                        PlatformState_pack([is_initialized |-> TRUE,
                                            authority |-> acc.initializer,
                                            platform_fee |-> platform_fee,
                                            nonce |-> 0]))

process_init_platform(st, acc, authority, platform_fee) ==
    IF ~acc.is_signer THEN Result("MissingRequiredSignature", st)
    ELSE IF acc.program /= PROGRAM_ID THEN Result("InvalidAccountData", st)
    ELSE IF acc.system_program /= SYSTEM_PROGRAM_ID THEN Result("InvalidAccountData", st)
    ELSE IF acc.state_account /= PlatformKey THEN Result("InvalidAccountData", st)
    ELSE LET r1 == create_account(st, acc.initializer, PlatformKey,
                                  minimum_balance(STATESIZE), STATESIZE, PROGRAM_ID)
         IN
         IF r1.err /= "Ok" THEN r1
         ELSE pack_into(r1.st, acc.state_account, STATESIZE,
                        PlatformState_pack([is_initialized |-> TRUE,
                                            authority |-> authority,
                                            platform_fee |-> platform_fee,
                                            nonce |-> 0]))

\* process_change_authority that returns Ok and leaves the record as it was
process_change_authority_keeps_authority(st, acc, authority) ==
    IF ~acc.is_signer THEN Result("MissingRequiredSignature", st)
    ELSE LET state_info == PlatformState_unpack(account_info(st, acc.state_account))
         IN
         IF state_info.err /= "Ok" THEN Result(state_info.err, st)
         ELSE IF acc.state_account /= PlatformKey THEN Result("InvalidInstructionData", st)
         ELSE IF ~state_info.st.is_initialized THEN Result("UninitializedAccount", st)
         ELSE IF state_info.st.authority /= acc.initializer
         THEN Result("InvalidAuthority", st)
         ELSE pack_into(st, acc.state_account, STATESIZE,
                        PlatformState_pack(state_info.st))

process_change_authority(st, acc, authority) ==
    IF ~acc.is_signer THEN Result("MissingRequiredSignature", st)
    ELSE LET state_info == PlatformState_unpack(account_info(st, acc.state_account))
         IN
         IF state_info.err /= "Ok" THEN Result(state_info.err, st)
         ELSE IF acc.state_account /= PlatformKey THEN Result("InvalidInstructionData", st)
         ELSE IF ~state_info.st.is_initialized THEN Result("UninitializedAccount", st)
         ELSE IF state_info.st.authority /= acc.initializer
         THEN Result("InvalidAuthority", st)
         ELSE pack_into(st, acc.state_account, STATESIZE,
                        PlatformState_pack([state_info.st EXCEPT !.authority = authority]))

\* process_change_fee that does not compare the signer with the recorded authority
process_change_fee_any_signer(st, acc, platform_fee) ==
    IF ~acc.is_signer THEN Result("MissingRequiredSignature", st)
    ELSE LET state_info == PlatformState_unpack(account_info(st, acc.state_account))
         IN
         IF state_info.err /= "Ok" THEN Result(state_info.err, st)
         ELSE IF acc.state_account /= PlatformKey THEN Result("InvalidInstructionData", st)
         ELSE IF ~state_info.st.is_initialized THEN Result("UninitializedAccount", st)
         ELSE pack_into(st, acc.state_account, STATESIZE,
                        PlatformState_pack([state_info.st EXCEPT !.platform_fee = platform_fee]))

process_change_fee(st, acc, platform_fee) ==
    IF ~acc.is_signer THEN Result("MissingRequiredSignature", st)
    ELSE LET state_info == PlatformState_unpack(account_info(st, acc.state_account))
         IN
         IF state_info.err /= "Ok" THEN Result(state_info.err, st)
         ELSE IF acc.state_account /= PlatformKey THEN Result("InvalidInstructionData", st)
         ELSE IF ~state_info.st.is_initialized THEN Result("UninitializedAccount", st)
         ELSE IF state_info.st.authority /= acc.initializer
         THEN Result("InvalidAuthority", st)
         ELSE pack_into(st, acc.state_account, STATESIZE,
                        PlatformState_pack([state_info.st EXCEPT !.platform_fee = platform_fee]))

(***************************************************************************)
(* Requests.  An account list is the one a client is meant to send for the *)
(* parties it names, or that list with one fault: the first account not    *)
(* signing, an account that is no mint where the mint is expected, a token *)
(* account of another user, or, in the place of one derived account, the   *)
(* account derived for another user.                                       *)
(***************************************************************************)
\* the other user whose account stands in a faulty slot
Other(u) == IF u = "alice" THEN "bob" ELSE IF u = "bob" THEN "carol" ELSE "alice"
Others(u) == {Other(u)}

ListAccounts(u, m) ==
    [initializer |-> u, is_signer |-> TRUE, token_account |-> <<u, m>>, mint |-> m,
     escrow_state |-> ListStateKey(m, u), escrow_vault |-> ListVaultKey(m, u),
     program |-> PROGRAM_ID, token_program |-> SPL_TOKEN_ID,
     system_program |-> SYSTEM_PROGRAM_ID]

ListFaults(a) ==
    {[a EXCEPT !.is_signer = FALSE], [a EXCEPT !.mint = NotAMint],
     [a EXCEPT !.mint = OtherMint,
               !.escrow_state = ListStateKey(OtherMint, a.initializer),
               !.escrow_vault = ListVaultKey(OtherMint, a.initializer)]}
      \cup {[a EXCEPT !.token_account = <<o, a.mint>>] : o \in Others(a.initializer)}
      \cup {[a EXCEPT !.escrow_state = ListStateKey(a.mint, o)] : o \in Others(a.initializer)}
      \cup {[a EXCEPT !.escrow_vault = ListVaultKey(a.mint, o)] : o \in Others(a.initializer)}

ListRequests ==
    UNION {{ListAccounts(u, m)} \cup ListFaults(ListAccounts(u, m)) : u \in Users, m \in Mints}

DeListAccounts(u, m) ==
    [signer |-> u, is_signer |-> TRUE, token_account |-> <<u, m>>, mint |-> m,
     escrow_state |-> ListStateKey(m, u), escrow_vault |-> ListVaultKey(m, u),
     program |-> PROGRAM_ID, token_program |-> SPL_TOKEN_ID]

DeListFaults(a) ==
    {[a EXCEPT !.is_signer = FALSE], [a EXCEPT !.mint = NotAMint]}
      \cup {[a EXCEPT !.token_account = <<o, a.mint>>] : o \in Others(a.signer)}
      \cup {[a EXCEPT !.escrow_state = ListStateKey(a.mint, o)] : o \in Others(a.signer)}
      \cup {[a EXCEPT !.escrow_vault = ListVaultKey(a.mint, o)] : o \in Others(a.signer)}
      \cup {[a EXCEPT !.escrow_state = ListStateKey(a.mint, o),
                      !.escrow_vault = ListVaultKey(a.mint, o)] : o \in Others(a.signer)}

DeListRequests ==
    UNION {{DeListAccounts(u, m)} \cup DeListFaults(DeListAccounts(u, m)) :
             u \in Users, m \in Mints}

BidAccounts(u, m) ==
    [initializer |-> u, is_signer |-> TRUE, mint |-> m,
     escrow_state |-> BidStateKey(m, u), escrow_vault |-> BidVaultKey(m, u),
     program |-> PROGRAM_ID, system_program |-> SYSTEM_PROGRAM_ID]

BidFaults(a) ==
    {[a EXCEPT !.is_signer = FALSE], [a EXCEPT !.mint = NotAMint]}
      \cup {[a EXCEPT !.escrow_state = BidStateKey(a.mint, o)] : o \in Others(a.initializer)}
      \cup {[a EXCEPT !.escrow_vault = BidVaultKey(a.mint, o)] : o \in Others(a.initializer)}

BidRequests ==
    UNION {{BidAccounts(u, m)} \cup BidFaults(BidAccounts(u, m)) : u \in Users, m \in Mints}

WithdrawBidAccounts(u, m) ==
    [signer |-> u, is_signer |-> TRUE, mint |-> m,
     escrow_state |-> BidStateKey(m, u), escrow_vault |-> BidVaultKey(m, u),
     program |-> PROGRAM_ID]

WithdrawBidFaults(a) ==
    {[a EXCEPT !.is_signer = FALSE], [a EXCEPT !.mint = NotAMint]}
      \cup {[a EXCEPT !.escrow_state = BidStateKey(a.mint, o)] : o \in Others(a.signer)}
      \cup {[a EXCEPT !.escrow_vault = BidVaultKey(a.mint, o)] : o \in Others(a.signer)}
      \cup {[a EXCEPT !.escrow_state = BidStateKey(a.mint, o),
                      !.escrow_vault = BidVaultKey(a.mint, o)] : o \in Others(a.signer)}

WithdrawBidRequests ==
    UNION {{WithdrawBidAccounts(u, m)} \cup WithdrawBidFaults(WithdrawBidAccounts(u, m)) :
             u \in Users, m \in Mints}

AcceptBidAccounts(u, b, m) ==
    [signer |-> u, is_signer |-> TRUE, mint |-> m, bidder |-> b,
     escrow_bid_state |-> BidStateKey(m, b), escrow_bid_vault |-> BidVaultKey(m, b),
     escrow_list_state |-> ListStateKey(m, u), escrow_list_vault |-> ListVaultKey(m, u)]

AcceptBidFaults(a) ==
    {[a EXCEPT !.is_signer = FALSE], [a EXCEPT !.mint = NotAMint]}
      \cup {[a EXCEPT !.escrow_bid_state = BidStateKey(a.mint, o)] : o \in Others(a.bidder)}
      \cup {[a EXCEPT !.escrow_bid_vault = BidVaultKey(a.mint, o)] : o \in Others(a.bidder)}
      \cup {[a EXCEPT !.escrow_list_state = ListStateKey(a.mint, o)] : o \in Others(a.signer)}
      \cup {[a EXCEPT !.escrow_list_vault = ListVaultKey(a.mint, o)] : o \in Others(a.signer)}
      \cup {[a EXCEPT !.escrow_list_state = ListStateKey(a.mint, o),
                      !.escrow_list_vault = ListVaultKey(a.mint, o)] : o \in Others(a.signer)}

AcceptBidRequests ==
    UNION {{AcceptBidAccounts(u, b, m)} \cup AcceptBidFaults(AcceptBidAccounts(u, b, m)) :
             u \in Users, b \in Users, m \in Mints}

WithdrawNFTAccounts(u, l, m) ==
    [signer |-> u, is_signer |-> TRUE, token_account |-> <<u, m>>, mint |-> m,
     lister |-> l,
     escrow_list_state |-> ListStateKey(m, l), escrow_list_vault |-> ListVaultKey(m, l),
     token_program |-> SPL_TOKEN_ID]

WithdrawNFTFaults(a) ==
    {[a EXCEPT !.is_signer = FALSE], [a EXCEPT !.mint = NotAMint]}
      \cup {[a EXCEPT !.token_account = <<o, a.mint>>] : o \in Others(a.signer)}
      \cup {[a EXCEPT !.escrow_list_state = ListStateKey(a.mint, o)] : o \in Others(a.lister)}
      \cup {[a EXCEPT !.escrow_list_vault = ListVaultKey(a.mint, o)] : o \in Others(a.lister)}

WithdrawNFTRequests ==
    UNION {{WithdrawNFTAccounts(u, l, m)} \cup WithdrawNFTFaults(WithdrawNFTAccounts(u, l, m)) :
             u \in Users, l \in Users, m \in Mints}

RefundAccounts(u, b, m) ==
    [signer |-> u, is_signer |-> TRUE, mint |-> m, bidder |-> b,
     state_account |-> PlatformKey,
     escrow_bid_state |-> BidStateKey(m, b), escrow_bid_vault |-> BidVaultKey(m, b)]

RefundFaults(a) ==
    {[a EXCEPT !.is_signer = FALSE], [a EXCEPT !.mint = NotAMint],
     [a EXCEPT !.state_account = BidStateKey(a.mint, a.bidder)]}
      \cup {[a EXCEPT !.escrow_bid_state = BidStateKey(a.mint, o)] : o \in Others(a.bidder)}
      \cup {[a EXCEPT !.escrow_bid_vault = BidVaultKey(a.mint, o)] : o \in Others(a.bidder)}

RefundRequests ==
    UNION {{RefundAccounts(u, b, m)} \cup RefundFaults(RefundAccounts(u, b, m)) :
             u \in Users, b \in Users, m \in Mints}

PlatformAccounts(u) ==
    [initializer |-> u, is_signer |-> TRUE, state_account |-> PlatformKey,
     program |-> PROGRAM_ID, system_program |-> SYSTEM_PROGRAM_ID]

PlatformFaults(a) ==
    {[a EXCEPT !.is_signer = FALSE], [a EXCEPT !.state_account = ForeignStateKey]}
      \cup {[a EXCEPT !.state_account = BidStateKey(m, a.initializer)] : m \in Mints}

PlatformRequests(signers) ==
    UNION {{PlatformAccounts(u)} \cup PlatformFaults(PlatformAccounts(u)) : u \in signers}

(***************************************************************************)
(* The host.                                                               *)
(***************************************************************************)
\* after a transaction, an account left with zero lamports is removed
Purge(st) ==
    [st EXCEPT !.pdas = [k \in PdaKeys |->
                           IF st.pdas[k].lamports = 0 THEN EmptyAccount ELSE st.pdas[k]]]

\* Execute that keeps the working copy of a handler that returned an error
Execute_keeps_failed_writes(st, r) == Purge(r.st)

\* the ledger after a request: the handler's working copy when it returned Ok,
\* the ledger as it was otherwise
Execute(st, r) == IF r.err = "Ok" THEN Purge(r.st) ELSE st

Commit(r) ==
    LET after == Execute(State, r)
    IN /\ wallets' = after.wallets
       /\ pdas' = after.pdas
       /\ tokens' = after.tokens
       /\ UNCHANGED call

Init ==
    /\ wallets = [u \in Users |-> InitialLamports]
    /\ pdas = [k \in PdaKeys |-> EmptyAccount]
    /\ tokens = [k \in TokenKeys |->
                   [mint |-> k[2], owner |-> k[1],
                    amount |-> IF k[1] = FirstHolder THEN 1 ELSE 0]]
    /\ owed = {}
    /\ accepts = 0
    /\ call = NoCall

InitializeBy(signers, fees) ==
    \E acc \in PlatformRequests(signers), authority \in Users, platform_fee \in fees :
        /\ Commit(process_init_platform(State, acc, authority, platform_fee))
        /\ UNCHANGED <<owed, accepts>>

ChangeAuthorityBy(signers) ==
    \E acc \in PlatformRequests(signers), authority \in Users :
        /\ Commit(process_change_authority(State, acc, authority))
        /\ UNCHANGED <<owed, accepts>>

ChangeFeeBy(signers, fees) ==
    \E acc \in PlatformRequests(signers), platform_fee \in fees :
        /\ Commit(process_change_fee(State, acc, platform_fee))
        /\ UNCHANGED <<owed, accepts>>

List ==
    \E acc \in ListRequests, amount \in Amounts :
        /\ Commit(process_list(State, acc, amount))
        /\ UNCHANGED <<owed, accepts>>

DeList ==
    \E acc \in DeListRequests :
        /\ Commit(process_delist(State, acc))
        /\ UNCHANGED <<owed, accepts>>

Bid ==
    \E acc \in BidRequests : \E amount \in BidAmounts(acc.initializer) :
        /\ Commit(process_bid(State, acc, amount))
        /\ UNCHANGED <<owed, accepts>>

WithdrawBid ==
    \E acc \in WithdrawBidRequests :
        /\ Commit(process_withdraw_bid(State, acc))
        /\ UNCHANGED <<owed, accepts>>

\* owed: the bidders whose bid was paid to a seller and who have not taken the
\* asset out of a listing vault since
AcceptBid ==
    \E acc \in AcceptBidRequests :
        LET r == process_accept_bid(State, acc)
        IN /\ r.err = "Ok" => accepts < MaxAccepts
           /\ Commit(r)
           /\ owed' = IF r.err = "Ok" THEN owed \cup {acc.bidder} ELSE owed
           /\ accepts' = IF r.err = "Ok" THEN accepts + 1 ELSE accepts

ClaimAssetOnSuccess ==
    \E acc \in WithdrawNFTRequests :
        LET r == process_withdraw_nft_on_success(State, acc)
        IN /\ Commit(r)
           /\ owed' = IF r.err = "Ok" THEN owed \ {acc.signer} ELSE owed
           /\ UNCHANGED accepts

RefundBidder ==
    \E acc \in RefundRequests :
        /\ Commit(process_refund(State, acc))
        /\ UNCHANGED <<owed, accepts>>

Initialize == InitializeBy(Admins, AdminFees)
ChangeAuthority == ChangeAuthorityBy(Admins)
ChangeFee == ChangeFeeBy(Admins, AdminFees)

Next ==
    \/ Initialize
    \/ ChangeAuthority
    \/ ChangeFee
    \/ List
    \/ DeList
    \/ Bid
    \/ WithdrawBid
    \/ AcceptBid
    \/ ClaimAssetOnSuccess
    \/ RefundBidder

Spec == Init /\ [][Next]_vars

(***************************************************************************)
(* The byte formats applied: the entry point decodes the instruction data, *)
(* the handlers unpack account data and pack records into it.              *)
(***************************************************************************)
Ledger == <<wallets, pdas, tokens, owed, accepts>>

UnpackInstruction ==
    \E input \in InstructionBuffers :
        /\ call' = Called("NFTInstruction::unpack", input, NFTInstruction_unpack(input))
        /\ UNCHANGED Ledger

PackPlatformState ==
    \E r \in PlatformStates :
        /\ call' = Called("PlatformState::pack", r, PlatformState_pack_into_slice(r))
        /\ UNCHANGED Ledger

UnpackPlatformState ==
    \E input \in PlatformBuffers :
        /\ call' = Called("PlatformState::unpack_unchecked", input,
                          PlatformState_unpack_unchecked(input))
        /\ UNCHANGED Ledger

PackListEscrowState ==
    \E r \in ListEscrowStates :
        /\ call' = Called("ListEscrowState::pack", r, ListEscrowState_pack_into_slice(r))
        /\ UNCHANGED Ledger

UnpackListEscrowState ==
    \E input \in ListEscrowBuffers :
        /\ call' = Called("ListEscrowState::unpack_unchecked", input,
                          ListEscrowState_unpack_unchecked(input))
        /\ UNCHANGED Ledger

PackBidEscrowState ==
    \E r \in BidEscrowStates :
        /\ call' = Called("BidEscrowState::pack", r, BidEscrowState_pack_into_slice(r))
        /\ UNCHANGED Ledger

UnpackBidEscrowState ==
    \E input \in BidEscrowBuffers :
        /\ call' = Called("BidEscrowState::unpack_unchecked", input,
                          BidEscrowState_unpack_unchecked(input))
        /\ UNCHANGED Ledger

CodecNext ==
    \/ UnpackInstruction
    \/ PackPlatformState
    \/ UnpackPlatformState
    \/ PackListEscrowState
    \/ UnpackListEscrowState
    \/ PackBidEscrowState
    \/ UnpackBidEscrowState

SpecCodec == Init /\ [][CodecNext]_vars

(***************************************************************************)
(* What the properties speak of.                                           *)
(***************************************************************************)
RECURSIVE SumOver(_, _)
SumOver(f, S) ==
    IF S = {} THEN 0
    ELSE LET x == CHOOSE y \in S : TRUE IN f[x] + SumOver(f, S \ {x})

\* the currency in all wallets
WalletLamports(st) == SumOver(st.wallets, Users)
\* the currency in all wallets and all program-derived accounts
TotalLamports(st) ==
    WalletLamports(st) + SumOver([k \in PdaKeys |-> st.pdas[k].lamports], PdaKeys)

ListingExists(st, m, u) == m \in Mints /\ st.pdas[ListStateKey(m, u)].space = LISTESCROWSTATE
ListingRecord(st, m, u) == ListEscrowState_unpack(st.pdas[ListStateKey(m, u)]).st
\* the listing of (m, u) exists and is settled
Settled(st, m, u) == ListingExists(st, m, u) /\ ListingRecord(st, m, u).success
\* the asset unit is in the listing vault of (m, u)
VaultHoldsAsset(st, m, u) ==
    /\ m \in Mints
    /\ st.pdas[ListVaultKey(m, u)].space = TOKEN_ACCOUNT_LEN
    /\ st.pdas[ListVaultKey(m, u)].data[3] = 1
BidExists(st, m, u) == m \in Mints /\ st.pdas[BidStateKey(m, u)].space = BIDESCROWSTATE
BidRecord(st, m, u) == BidEscrowState_unpack(st.pdas[BidStateKey(m, u)]).st
\* the currency the bid escrow of (m, u) holds
BidHeld(st, m, u) == st.pdas[BidStateKey(m, u)].lamports + st.pdas[BidVaultKey(m, u)].lamports
\* a request failed and left the ledger as it was
Rejected(st, r) == r.err /= "Ok" /\ Execute(st, r) = st

(***************************************************************************)
(* C1: DeList by the seller of a settled listing fails; the asset stays in *)
(* the listing vault, the record and every balance as they were.           *)
(***************************************************************************)
C1_DeListFailsOnceSettled ==
    \A acc \in DeListRequests :
        Settled(State, acc.mint, acc.signer) => Rejected(State, process_delist(State, acc))

(***************************************************************************)
(* C2: AcceptBid on a settled listing fails, whichever bidder with a bid   *)
(* on the asset it names: a listing is settled by at most one AcceptBid.   *)
(***************************************************************************)
C2_AcceptBidFailsOnceSettled ==
    \A acc \in AcceptBidRequests :
        (Settled(State, acc.mint, acc.signer) /\ BidExists(State, acc.mint, acc.bidder))
            => Rejected(State, process_accept_bid(State, acc))

(***************************************************************************)
(* C3: every bidder whose bid was paid to a seller is the recorded buyer   *)
(* of a settled listing whose vault holds the asset unit, or holds the     *)
(* asset unit.                                                             *)
(***************************************************************************)
C3_PaidBidderGetsAsset ==
    \A b \in owed : \E m \in Mints :
        \/ \E s \in Users : /\ Settled(State, m, s)
                            /\ ListingRecord(State, m, s).successful_buyer = b
                            /\ VaultHoldsAsset(State, m, s)
        \/ tokens[<<b, m>>].amount = 1

(***************************************************************************)
(* C4: ClaimAssetOnSuccess fails whenever the listing is not settled or    *)
(* the signer is not the listing's buyer; the asset stays in the vault and *)
(* the listing stays open.                                                 *)
(***************************************************************************)
C4_ClaimNeedsSettledAndBuyer ==
    \A acc \in WithdrawNFTRequests :
        (\/ ~Settled(State, acc.mint, acc.lister)
         \/ ListingRecord(State, acc.mint, acc.lister).successful_buyer /= acc.signer)
            => Rejected(State, process_withdraw_nft_on_success(State, acc))

\* a settled listing whose vault holds the asset, and a signed, well-formed claim
\* on it by someone other than its buyer, which is refused
C4_Witness ==
    \E acc \in WithdrawNFTRequests :
        /\ acc = WithdrawNFTAccounts(acc.signer, acc.lister, acc.mint)
        /\ Settled(State, acc.mint, acc.lister)
        /\ VaultHoldsAsset(State, acc.mint, acc.lister)
        /\ ListingRecord(State, acc.mint, acc.lister).successful_buyer /= acc.signer
        /\ process_withdraw_nft_on_success(State, acc).err = "InvalidAccountData"

(***************************************************************************)
(* C5: AcceptBid fails unless the signer is the seller recorded in the     *)
(* listing, leaving the listing and the bid as they were; a successful     *)
(* AcceptBid changes no listing of another seller and pays no one but the  *)
(* signer and the bidder.                                                  *)
(***************************************************************************)
C5_AcceptBidOnlyBySeller ==
    \A acc \in AcceptBidRequests :
        LET r == process_accept_bid(State, acc)
            after == Execute(State, r)
        IN /\ ~(/\ ListingExists(State, acc.mint, acc.signer)
                /\ ListingRecord(State, acc.mint, acc.signer).lister = acc.signer)
                  => Rejected(State, r)
           /\ \A m \in Mints, s \in Users \ {acc.signer} :
                  after.pdas[ListStateKey(m, s)] = pdas[ListStateKey(m, s)]
           /\ \A u \in Users \ {acc.signer, acc.bidder} : after.wallets[u] = wallets[u]

\* a listing and a bid on its asset, and a signed AcceptBid by a third party that
\* passes the seller's listing accounts and is refused
C5_Witness ==
    \E acc \in AcceptBidRequests :
        LET seller == Other(acc.signer)
        IN /\ acc.is_signer /\ acc.mint \in Mints
           /\ acc.escrow_list_state = ListStateKey(acc.mint, seller)
           /\ acc.escrow_list_vault = ListVaultKey(acc.mint, seller)
           /\ ListingExists(State, acc.mint, seller)
           /\ ~ListingExists(State, acc.mint, acc.signer)
           /\ BidExists(State, acc.mint, acc.bidder)
           /\ process_accept_bid(State, acc).err = "InvalidAccountData"

(***************************************************************************)
(* C6: value conservation.  Whatever requests succeeded or failed, the     *)
(* currency in all wallets and all escrow accounts (and the platform       *)
(* state's reserve, once Initialize paid it) is what the wallets started   *)
(* with; and a ClaimAssetOnSuccess hands the whole reserve of the listing  *)
(* accounts to the seller.                                                 *)
(***************************************************************************)
C6_ValueConservation ==
    /\ TotalLamports(State) = Cardinality(Users) * InitialLamports
    /\ \A acc \in WithdrawNFTRequests :
           LET r == process_withdraw_nft_on_success(State, acc)
               after == Execute(State, r)
           IN r.err = "Ok" =>
                  /\ after.wallets[acc.lister] =
                         wallets[acc.lister] + pdas[ListStateKey(acc.mint, acc.lister)].lamports
                                             + pdas[ListVaultKey(acc.mint, acc.lister)].lamports
                  /\ \A u \in Users \ {acc.lister} : after.wallets[u] = wallets[u]

\* List, Bid, AcceptBid and ClaimAssetOnSuccess are done: no escrow is left, bob
\* holds the asset and is out of pocket by his bid of 80, which alice has on top
\* of everything she started with
C6_Witness ==
    /\ accepts = 1
    /\ owed = {}
    /\ \A k \in PdaKeys \ {PlatformKey} : pdas[k] = EmptyAccount
    /\ tokens[<<"bob", "M">>].amount = 1
    /\ wallets["alice"] = InitialLamports + 80
    /\ wallets["bob"] = InitialLamports - 80

(***************************************************************************)
(* C7: a successful AcceptBid credits the seller the bid amount and the    *)
(* bidder the rest of what the two bid accounts held, and leaves both bid  *)
(* accounts with nothing.                                                  *)
(***************************************************************************)
C7_AcceptBidPayout ==
    \A acc \in AcceptBidRequests :
        LET r == process_accept_bid(State, acc)
            after == Execute(State, r)
            amount == BidRecord(State, acc.mint, acc.bidder).amount
            total == BidHeld(State, acc.mint, acc.bidder)
            credit(u) == (IF u = acc.signer THEN amount ELSE 0)
                           + (IF u = acc.bidder THEN total - amount ELSE 0)
        IN r.err = "Ok" =>
               /\ \A u \in Users : after.wallets[u] = wallets[u] + credit(u)
               /\ after.pdas[BidStateKey(acc.mint, acc.bidder)].lamports = 0
               /\ after.pdas[BidVaultKey(acc.mint, acc.bidder)].lamports = 0

\* a seller can accept the bid of another wallet, whose escrow holds the bid
\* amount and both reserves
C7_Witness ==
    \E acc \in AcceptBidRequests :
        /\ acc.signer /= acc.bidder
        /\ process_accept_bid(State, acc).err = "Ok"
        /\ BidHeld(State, acc.mint, acc.bidder) >
               BidRecord(State, acc.mint, acc.bidder).amount

(***************************************************************************)
(* C8: a successful AcceptBid writes the bid's amount, settled = true and  *)
(* the named bidder into the listing record, the bid being below, at or    *)
(* above the ask price, and keeps the record's seller and asset.           *)
(***************************************************************************)
C8_AcceptBidSettles ==
    \A acc \in AcceptBidRequests :
        LET r == process_accept_bid(State, acc)
            after == Execute(State, r)
            before == ListingRecord(State, acc.mint, acc.signer)
        IN r.err = "Ok" =>
               /\ ListingExists(after, acc.mint, acc.signer)
               /\ ListingRecord(after, acc.mint, acc.signer) =
                      [lister |-> before.lister,
                       mint |-> before.mint,
                       amount |-> BidRecord(State, acc.mint, acc.bidder).amount,
                       success |-> TRUE,
                       successful_buyer |-> acc.bidder]

\* an open listing at 100 with a bid of 80 and a bid of 100 on it, either of
\* which the seller can accept
C8_Witness ==
    \E m \in Mints, s \in Users, b1 \in Users, b2 \in Users :
        /\ ListingExists(State, m, s) /\ ~ListingRecord(State, m, s).success
        /\ ListingRecord(State, m, s).amount = 100
        /\ BidExists(State, m, b1) /\ BidRecord(State, m, b1).amount = 80
        /\ BidExists(State, m, b2) /\ BidRecord(State, m, b2).amount = 100
        /\ process_accept_bid(State, AcceptBidAccounts(s, b1, m)).err = "Ok"
        /\ process_accept_bid(State, AcceptBidAccounts(s, b2, m)).err = "Ok"

(***************************************************************************)
(* C9: while a listing escrow of (asset, seller) exists a second List for  *)
(* the pair fails, and while a bid escrow of (asset, bidder) exists a      *)
(* second Bid for the pair fails, the derived address being in use; the    *)
(* record and the vault stay as they were.                                 *)
(***************************************************************************)
C9_MutualExclusivity ==
    /\ \A acc \in ListRequests, amount \in Amounts :
           LET r == process_list(State, acc, amount)
           IN ListingExists(State, acc.mint, acc.initializer) =>
                  /\ Rejected(State, r)
                  /\ acc = ListAccounts(acc.initializer, acc.mint)
                         => r.err = "AccountAlreadyInUse"
    /\ \A acc \in BidRequests, amount \in Amounts :
           LET r == process_bid(State, acc, amount)
           IN BidExists(State, acc.mint, acc.initializer) =>
                  /\ Rejected(State, r)
                  /\ acc = BidAccounts(acc.initializer, acc.mint)
                         => r.err = "AccountAlreadyInUse"

\* a seller with a listing in escrow whose second List is refused, and a wallet
\* with a bid in escrow and the funds for another one whose second Bid is refused
C9_Witness ==
    \E acc \in BidRequests, amount \in Amounts, l \in ListRequests :
        /\ l = ListAccounts(l.initializer, l.mint)
        /\ ListingExists(State, l.mint, l.initializer)
        /\ process_list(State, l, amount).err = "AccountAlreadyInUse"
        /\ acc = BidAccounts(acc.initializer, acc.mint)
        /\ BidExists(State, acc.mint, acc.initializer)
        /\ BidRecord(State, acc.mint, acc.initializer).amount /= amount
        /\ wallets[acc.initializer] >=
               minimum_balance(BIDESCROWSTATE) + minimum_balance(0) + amount
        /\ process_bid(State, acc, amount).err = "AccountAlreadyInUse"

(***************************************************************************)
(* C10: a bid escrow is closed once.  A successful WithdrawBid, AcceptBid  *)
(* or RefundBidder on the bid of (asset, bidder) empties both its accounts *)
(* and pays out exactly what they held; on a bid that is already closed    *)
(* (and not recreated by a Bid) each of the three pays out nothing.        *)
(***************************************************************************)
ClosesBidOnce(r, m, b) ==
    LET after == Execute(State, r)
    IN /\ r.err = "Ok" =>
              /\ after.pdas[BidStateKey(m, b)] = EmptyAccount
              /\ after.pdas[BidVaultKey(m, b)] = EmptyAccount
              /\ WalletLamports(after) = WalletLamports(State) + BidHeld(State, m, b)
       /\ ~BidExists(State, m, b) => after.wallets = wallets

C10_BidClosedOnce ==
    /\ \A m \in Mints, b \in Users : BidHeld(State, m, b) > 0 <=> BidExists(State, m, b)
    /\ \A acc \in WithdrawBidRequests :
           acc.mint \in Mints =>
               ClosesBidOnce(process_withdraw_bid(State, acc), acc.mint, acc.signer)
    /\ \A acc \in AcceptBidRequests :
           acc.mint \in Mints =>
               ClosesBidOnce(process_accept_bid(State, acc), acc.mint, acc.bidder)
    /\ \A acc \in RefundRequests :
           acc.mint \in Mints =>
               ClosesBidOnce(process_refund(State, acc), acc.mint, acc.bidder)

\* bob's bid was accepted and paid to the seller; his WithdrawBid and the
\* authority's RefundBidder for it now succeed and move nothing
C10_Witness ==
    /\ "bob" \in owed
    /\ ~BidExists(State, "M", "bob")
    /\ process_withdraw_bid(State, WithdrawBidAccounts("bob", "M")).err = "Ok"
    /\ \E u \in Users : process_refund(State, RefundAccounts(u, "bob", "M")).err = "Ok"
    /\ process_accept_bid(State, AcceptBidAccounts("alice", "bob", "M")).err /= "Ok"

(***************************************************************************)
(* C11: a successful ClaimAssetOnSuccess moves the asset unit from the     *)
(* listing vault into the buyer's token account, leaves the listing vault  *)
(* and the listing state closed with no balance, and credits the reserve   *)
(* of both to the seller; the buyer who signed is credited nothing.        *)
(***************************************************************************)
C11_ClaimEffects ==
    \A acc \in WithdrawNFTRequests :
        LET r == process_withdraw_nft_on_success(State, acc)
            after == Execute(State, r)
            state_key == ListStateKey(acc.mint, acc.lister)
            vault_key == ListVaultKey(acc.mint, acc.lister)
            reserve == pdas[state_key].lamports + pdas[vault_key].lamports
        IN r.err = "Ok" =>
               /\ VaultHoldsAsset(State, acc.mint, acc.lister)
               /\ after.tokens = [tokens EXCEPT ![<<acc.signer, acc.mint>>].amount = @ + 1]
               /\ after.pdas = [pdas EXCEPT ![state_key] = EmptyAccount,
                                            ![vault_key] = EmptyAccount]
               /\ reserve = minimum_balance(LISTESCROWSTATE) + minimum_balance(TOKEN_ACCOUNT_LEN)
               /\ after.wallets = [wallets EXCEPT ![acc.lister] = @ + reserve]

\* the buyer of a settled listing, a wallet other than the seller, can claim
C11_Witness ==
    \E acc \in WithdrawNFTRequests :
        /\ acc.signer /= acc.lister
        /\ Settled(State, acc.mint, acc.lister)
        /\ tokens[<<acc.signer, acc.mint>>].amount = 0
        /\ process_withdraw_nft_on_success(State, acc).err = "Ok"

(***************************************************************************)
(* C12: DeList succeeds only for the seller of an existing listing.  A     *)
(* successful DeList returns the asset unit from the listing vault to the  *)
(* seller's token account, closes the vault and the state account and      *)
(* credits the reserve of both to the seller.  A DeList signed by a wallet *)
(* that is not the seller of the listing fails, whichever accounts it      *)
(* passes, and the listing of another seller keeps its record and asset.   *)
(***************************************************************************)
C12_DeListOnlyBySeller ==
    \A acc \in DeListRequests :
        LET r == process_delist(State, acc)
            after == Execute(State, r)
            state_key == ListStateKey(acc.mint, acc.signer)
            vault_key == ListVaultKey(acc.mint, acc.signer)
            reserve == pdas[state_key].lamports + pdas[vault_key].lamports
        IN /\ r.err = "Ok" =>
                  /\ ListingExists(State, acc.mint, acc.signer)
                  /\ ListingRecord(State, acc.mint, acc.signer).lister = acc.signer
                  /\ VaultHoldsAsset(State, acc.mint, acc.signer)
                  /\ after.tokens = [tokens EXCEPT ![<<acc.signer, acc.mint>>].amount = @ + 1]
                  /\ after.pdas = [pdas EXCEPT ![state_key] = EmptyAccount,
                                               ![vault_key] = EmptyAccount]
                  /\ reserve = minimum_balance(LISTESCROWSTATE)
                                 + minimum_balance(TOKEN_ACCOUNT_LEN)
                  /\ after.wallets = [wallets EXCEPT ![acc.signer] = @ + reserve]
           /\ ~ListingExists(State, acc.mint, acc.signer) => Rejected(State, r)
           /\ \A m \in Mints, s \in Users \ {acc.signer} :
                  /\ after.pdas[ListStateKey(m, s)] = pdas[ListStateKey(m, s)]
                  /\ after.pdas[ListVaultKey(m, s)] = pdas[ListVaultKey(m, s)]

\* a listing whose seller can DeList, while a DeList signed by another wallet that
\* passes the seller's listing state and vault is refused
C12_Witness ==
    \E acc \in DeListRequests :
        LET seller == Other(acc.signer)
        IN /\ acc.is_signer /\ acc.mint \in Mints
           /\ acc.escrow_state = ListStateKey(acc.mint, seller)
           /\ acc.escrow_vault = ListVaultKey(acc.mint, seller)
           /\ VaultHoldsAsset(State, acc.mint, seller)
           /\ ~Settled(State, acc.mint, seller)
           /\ process_delist(State, acc).err = "InvalidAccountData"
           /\ process_delist(State, DeListAccounts(seller, acc.mint)).err = "Ok"

(***************************************************************************)
(* C13: WithdrawBid releases the signer's own bid only.  A successful      *)
(* WithdrawBid zeroes the bid state and the bid vault derived from (asset, *)
(* signer) and credits the balance of both to the signer; no WithdrawBid,  *)
(* whichever accounts it passes, changes the bid accounts of another       *)
(* bidder or the balance of another wallet.                                *)
(***************************************************************************)
C13_WithdrawBidOwnBidOnly ==
    \A acc \in WithdrawBidRequests :
        LET r == process_withdraw_bid(State, acc)
            after == Execute(State, r)
            held == BidHeld(State, acc.mint, acc.signer)
        IN /\ r.err = "Ok" =>
                  /\ after.pdas = [pdas EXCEPT ![BidStateKey(acc.mint, acc.signer)] = EmptyAccount,
                                               ![BidVaultKey(acc.mint, acc.signer)] = EmptyAccount]
                  /\ after.wallets = [wallets EXCEPT ![acc.signer] = @ + held]
                  /\ after.tokens = tokens
           /\ \A m \in Mints, b \in Users \ {acc.signer} :
                  /\ after.pdas[BidStateKey(m, b)] = pdas[BidStateKey(m, b)]
                  /\ after.pdas[BidVaultKey(m, b)] = pdas[BidVaultKey(m, b)]
           /\ \A u \in Users \ {acc.signer} : after.wallets[u] = wallets[u]

\* two wallets have a bid in escrow: one can withdraw its own, and its WithdrawBid
\* passing the other bidder's state and vault is refused
C13_Witness ==
    \E acc \in WithdrawBidRequests :
        LET other == Other(acc.signer)
        IN /\ acc.is_signer /\ acc.mint \in Mints
           /\ acc.escrow_state = BidStateKey(acc.mint, other)
           /\ acc.escrow_vault = BidVaultKey(acc.mint, other)
           /\ BidExists(State, acc.mint, other)
           /\ BidExists(State, acc.mint, acc.signer)
           /\ process_withdraw_bid(State, acc).err = "InvalidAccountData"
           /\ process_withdraw_bid(State, WithdrawBidAccounts(acc.signer, acc.mint)).err = "Ok"

\* the platform state account exists and its record is initialized
PlatformInitialized(st) ==
    /\ st.pdas[PlatformKey].space = STATESIZE
    /\ PlatformState_unpack(st.pdas[PlatformKey]).st.is_initialized
PlatformRecord(st) == PlatformState_unpack(st.pdas[PlatformKey]).st

(***************************************************************************)
(* C14: RefundBidder succeeds only when the signer is the authority the    *)
(* platform state records; signed by another wallet it fails with          *)
(* InvalidAuthority and moves nothing.  On success both bid accounts of    *)
(* (asset, named bidder) are zeroed and the balance of both is credited to *)
(* the named bidder, the authority's own wallet getting nothing of it.     *)
(***************************************************************************)
C14_RefundOnlyByAuthority ==
    \A acc \in RefundRequests :
        LET r == process_refund(State, acc)
            after == Execute(State, r)
            held == BidHeld(State, acc.mint, acc.bidder)
        IN /\ r.err = "Ok" =>
                  /\ PlatformInitialized(State)
                  /\ PlatformRecord(State).authority = acc.signer
                  /\ after.pdas = [pdas EXCEPT ![BidStateKey(acc.mint, acc.bidder)] = EmptyAccount,
                                               ![BidVaultKey(acc.mint, acc.bidder)] = EmptyAccount]
                  /\ after.wallets = [wallets EXCEPT ![acc.bidder] = @ + held]
                  /\ after.tokens = tokens
           /\ (PlatformInitialized(State) /\ PlatformRecord(State).authority /= acc.signer) =>
                  /\ Rejected(State, r)
                  /\ (acc.is_signer /\ acc.mint \in Mints /\ acc.state_account = PlatformKey)
                         => r.err = "InvalidAuthority"

\* a bid in escrow that the authority, a wallet other than the bidder, can refund
\* and that a wallet other than the authority cannot
C14_Witness ==
    \E a \in Users, u \in Users, b \in Users, m \in Mints :
        /\ PlatformInitialized(State) /\ PlatformRecord(State).authority = a
        /\ a /= b /\ u /= a
        /\ BidExists(State, m, b)
        /\ process_refund(State, RefundAccounts(a, b, m)).err = "Ok"
        /\ process_refund(State, RefundAccounts(u, b, m)).err = "InvalidAuthority"

\* the results, in the current state, of every request of the seven operations
\* that are not Initialize, ChangeAuthority or ChangeFee
TradingResults ==
    {process_list(State, acc, amount) : acc \in ListRequests, amount \in Amounts}
      \cup {process_delist(State, acc) : acc \in DeListRequests}
      \cup {process_bid(State, acc, amount) : acc \in BidRequests, amount \in Amounts}
      \cup {process_withdraw_bid(State, acc) : acc \in WithdrawBidRequests}
      \cup {process_accept_bid(State, acc) : acc \in AcceptBidRequests}
      \cup {process_withdraw_nft_on_success(State, acc) : acc \in WithdrawNFTRequests}
      \cup {process_refund(State, acc) : acc \in RefundRequests}

(***************************************************************************)
(* C15: the platform's authority and fee change only through a             *)
(* ChangeAuthority or ChangeFee signed by the authority the platform state *)
(* records at that moment.  Signed by any other wallet the request fails   *)
(* with InvalidAuthority and the record stays as it was; a request that    *)
(* succeeds rewrites the one field and nothing else; no trading operation  *)
(* writes the record.                                                      *)
(***************************************************************************)
C15_ConfigOnlyByAuthority ==
    /\ \A acc \in PlatformRequests(Users), authority \in Users, platform_fee \in Fees :
           LET ra == process_change_authority(State, acc, authority)
               rf == process_change_fee(State, acc, platform_fee)
               before == PlatformRecord(State)
               others(after) == /\ after.wallets = wallets /\ after.tokens = tokens
                                /\ \A k \in PdaKeys \ {PlatformKey} : after.pdas[k] = pdas[k]
           IN /\ ra.err = "Ok" =>
                     /\ PlatformInitialized(State) /\ before.authority = acc.initializer
                     /\ PlatformRecord(Execute(State, ra)) = [before EXCEPT !.authority = authority]
                     /\ others(Execute(State, ra))
              /\ rf.err = "Ok" =>
                     /\ PlatformInitialized(State) /\ before.authority = acc.initializer
                     /\ PlatformRecord(Execute(State, rf)) =
                            [before EXCEPT !.platform_fee = platform_fee]
                     /\ others(Execute(State, rf))
              /\ (PlatformInitialized(State) /\ before.authority /= acc.initializer) =>
                     /\ Rejected(State, ra) /\ Rejected(State, rf)
                     /\ acc = PlatformAccounts(acc.initializer) =>
                            ra.err = "InvalidAuthority" /\ rf.err = "InvalidAuthority"
    /\ \A r \in TradingResults :
           Execute(State, r).pdas[PlatformKey] = pdas[PlatformKey]

\* an initialized platform whose authority can change the authority and the fee to
\* new values, while another wallet's ChangeAuthority and ChangeFee are refused
C15_Witness ==
    \E a \in Users, u \in Users, platform_fee \in Fees :
        /\ PlatformInitialized(State) /\ PlatformRecord(State).authority = a
        /\ u /= a /\ PlatformRecord(State).platform_fee /= platform_fee
        /\ process_change_authority(State, PlatformAccounts(a), u).err = "Ok"
        /\ process_change_fee(State, PlatformAccounts(a), platform_fee).err = "Ok"
        /\ process_change_authority(State, PlatformAccounts(u), u).err = "InvalidAuthority"
        /\ process_change_fee(State, PlatformAccounts(u), platform_fee).err = "InvalidAuthority"

(***************************************************************************)
(* C16: Initialize succeeds at most once.  Once the platform state is      *)
(* initialized every Initialize, from any wallet with any authority and    *)
(* fee, fails and leaves the record as it was, and no step of any          *)
(* operation removes the platform state account or clears its initialized  *)
(* flag.                                                                   *)
(***************************************************************************)
LaterInitializeFails ==
    \A acc \in PlatformRequests(Users), authority \in Users, platform_fee \in Fees :
        LET r == process_init_platform(State, acc, authority, platform_fee)
        IN PlatformInitialized(State) =>
               /\ Rejected(State, r)
               /\ acc = PlatformAccounts(acc.initializer) => r.err = "AccountAlreadyInUse"

C16_InitializeOnce ==
    /\ []LaterInitializeFails
    /\ [][PlatformInitialized(State) => PlatformInitialized(State')]_vars

\* an initialized platform, and a wallet with the funds for the account's reserve
\* whose Initialize naming another authority and fee is refused
C16_Witness ==
    \E u \in Users, authority \in Users, platform_fee \in Fees :
        /\ PlatformInitialized(State)
        /\ PlatformRecord(State).authority /= authority
        /\ PlatformRecord(State).platform_fee /= platform_fee
        /\ wallets[u] >= minimum_balance(STATESIZE)
        /\ \E m \in Mints, s \in Users : ListingExists(State, m, s)
        /\ process_init_platform(State, PlatformAccounts(u), authority, platform_fee).err
               = "AccountAlreadyInUse"

(***************************************************************************)
(* C17: while the platform has not been initialized, a well-formed         *)
(* ChangeAuthority, ChangeFee or RefundBidder from any wallet fails with   *)
(* UninitializedAccount and changes nothing.                               *)
(***************************************************************************)
C17_UninitializedConfigRefused ==
    ~PlatformInitialized(State) =>
        /\ \A u \in Users, authority \in Users :
               LET r == process_change_authority(State, PlatformAccounts(u), authority)
               IN r.err = "UninitializedAccount" /\ Rejected(State, r)
        /\ \A u \in Users, platform_fee \in Fees :
               LET r == process_change_fee(State, PlatformAccounts(u), platform_fee)
               IN r.err = "UninitializedAccount" /\ Rejected(State, r)
        /\ \A u \in Users, b \in Users, m \in Mints :
               LET r == process_refund(State, RefundAccounts(u, b, m))
               IN r.err = "UninitializedAccount" /\ Rejected(State, r)

\* the results, in the current state, of every request of the three platform
\* operations, from any wallet
PlatformResults ==
    {process_init_platform(State, acc, authority, platform_fee) :
         acc \in PlatformRequests(Users), authority \in Users, platform_fee \in Fees}
      \cup {process_change_authority(State, acc, authority) :
               acc \in PlatformRequests(Users), authority \in Users}
      \cup {process_change_fee(State, acc, platform_fee) :
               acc \in PlatformRequests(Users), platform_fee \in Fees}

RefusedBeforeMutation(r) == r.err = "InvalidAccountData" /\ r.st = State

C19_DerivedAccountMismatchRefused ==
    /\ \A acc \in PlatformRequests(Users), authority \in Users, platform_fee \in Fees :
           (acc.is_signer /\ acc.state_account /= PlatformKey) =>
               /\ RefusedBeforeMutation(process_init_platform(State, acc, authority, platform_fee))
               /\ RefusedBeforeMutation(process_change_authority(State, acc, authority))
               /\ RefusedBeforeMutation(process_change_fee(State, acc, platform_fee))
    /\ \A acc \in ListRequests, amount \in Amounts :
           (acc.is_signer /\ acc.mint \in Mints /\ acc.token_account = <<acc.initializer, acc.mint>>
              /\ (\/ acc.escrow_state /= ListStateKey(acc.mint, acc.initializer)
                  \/ acc.escrow_vault /= ListVaultKey(acc.mint, acc.initializer)))
               => RefusedBeforeMutation(process_list(State, acc, amount))
    /\ \A acc \in DeListRequests :
           (acc.is_signer /\ acc.mint \in Mints /\ acc.token_account = <<acc.signer, acc.mint>>
              /\ (\/ acc.escrow_state /= ListStateKey(acc.mint, acc.signer)
                  \/ acc.escrow_vault /= ListVaultKey(acc.mint, acc.signer)))
               => RefusedBeforeMutation(process_delist(State, acc))
    /\ \A acc \in BidRequests, amount \in Amounts :
           (acc.is_signer /\ acc.mint \in Mints
              /\ (\/ acc.escrow_state /= BidStateKey(acc.mint, acc.initializer)
                  \/ acc.escrow_vault /= BidVaultKey(acc.mint, acc.initializer)))
               => RefusedBeforeMutation(process_bid(State, acc, amount))
    /\ \A acc \in WithdrawBidRequests :
           (acc.is_signer /\ acc.mint \in Mints
              /\ (\/ acc.escrow_state /= BidStateKey(acc.mint, acc.signer)
                  \/ acc.escrow_vault /= BidVaultKey(acc.mint, acc.signer)))
               => RefusedBeforeMutation(process_withdraw_bid(State, acc))
    /\ \A acc \in AcceptBidRequests :
           (acc.is_signer /\ acc.mint \in Mints
              /\ (\/ acc.escrow_bid_state /= BidStateKey(acc.mint, acc.bidder)
                  \/ acc.escrow_bid_vault /= BidVaultKey(acc.mint, acc.bidder)
                  \/ acc.escrow_list_state /= ListStateKey(acc.mint, acc.signer)
                  \/ acc.escrow_list_vault /= ListVaultKey(acc.mint, acc.signer)))
               => RefusedBeforeMutation(process_accept_bid(State, acc))
    /\ \A acc \in WithdrawNFTRequests :
           (acc.is_signer /\ acc.mint \in Mints /\ acc.token_account = <<acc.signer, acc.mint>>
              /\ (\/ acc.escrow_list_state /= ListStateKey(acc.mint, acc.lister)
                  \/ acc.escrow_list_vault /= ListVaultKey(acc.mint, acc.lister)))
               => RefusedBeforeMutation(process_withdraw_nft_on_success(State, acc))
    /\ \A acc \in RefundRequests :
           (acc.is_signer /\ acc.mint \in Mints
              /\ (\/ acc.state_account /= PlatformKey
                  \/ /\ PlatformInitialized(State)
                     /\ PlatformRecord(State).authority = acc.signer
                     /\ \/ acc.escrow_bid_state /= BidStateKey(acc.mint, acc.bidder)
                        \/ acc.escrow_bid_vault /= BidVaultKey(acc.mint, acc.bidder)))
               => RefusedBeforeMutation(process_refund(State, acc))

(***************************************************************************)
(* C20: for each of the ten operations, a request whose first account did  *)
(* not sign fails with MissingRequiredSignature and changes nothing,       *)
(* whatever its other accounts and arguments and whatever the state.       *)
(***************************************************************************)
\* the request with its first account not signing
Unsigned(acc) == [acc EXCEPT !.is_signer = FALSE]
\* the handler refused for the missing signature and nothing changed
NoSignature(r) == r.err = "MissingRequiredSignature" /\ Rejected(State, r)

C20_UnsignedRefused ==
    /\ \A acc \in PlatformRequests(Users), authority \in Users, platform_fee \in Fees :
           /\ NoSignature(process_init_platform(State, Unsigned(acc), authority, platform_fee))
           /\ NoSignature(process_change_authority(State, Unsigned(acc), authority))
           /\ NoSignature(process_change_fee(State, Unsigned(acc), platform_fee))
    /\ \A acc \in ListRequests, amount \in Amounts :
           NoSignature(process_list(State, Unsigned(acc), amount))
    /\ \A acc \in DeListRequests : NoSignature(process_delist(State, Unsigned(acc)))
    /\ \A acc \in BidRequests, amount \in Amounts :
           NoSignature(process_bid(State, Unsigned(acc), amount))
    /\ \A acc \in WithdrawBidRequests : NoSignature(process_withdraw_bid(State, Unsigned(acc)))
    /\ \A acc \in AcceptBidRequests : NoSignature(process_accept_bid(State, Unsigned(acc)))
    /\ \A acc \in WithdrawNFTRequests :
           NoSignature(process_withdraw_nft_on_success(State, Unsigned(acc)))
    /\ \A acc \in RefundRequests : NoSignature(process_refund(State, Unsigned(acc)))

\* a state in which an Initialize and an AcceptBid would succeed if signed, and are
\* refused unsigned
C20_Witness ==
    \E u \in Users, acc \in AcceptBidRequests :
        /\ process_init_platform(State, PlatformAccounts(u), u, 0).err = "Ok"
        /\ process_init_platform(State, Unsigned(PlatformAccounts(u)), u, 0).err
               = "MissingRequiredSignature"
        /\ process_accept_bid(State, acc).err = "Ok"
        /\ process_accept_bid(State, Unsigned(acc)).err = "MissingRequiredSignature"

(***************************************************************************)
(* C21: between operations a listing state account exists exactly when its *)
(* listing vault exists, and a bid state account exists exactly when its   *)
(* bid vault exists: each pair is created by one List or Bid and closed by *)
(* one DeList, ClaimAssetOnSuccess, WithdrawBid, AcceptBid or              *)
(* RefundBidder.                                                           *)
(***************************************************************************)
C21_VaultMirrorsRecord ==
    \A m \in Mints, u \in Users :
        /\ pdas[ListStateKey(m, u)] /= EmptyAccount <=> pdas[ListVaultKey(m, u)] /= EmptyAccount
        /\ pdas[ListStateKey(m, u)] /= EmptyAccount =>
               /\ ListingExists(State, m, u)
               /\ IsTokenAccount(pdas[ListVaultKey(m, u)])
               /\ pdas[ListVaultKey(m, u)].data[1] = m
        /\ pdas[BidStateKey(m, u)] /= EmptyAccount <=> pdas[BidVaultKey(m, u)] /= EmptyAccount
        /\ pdas[BidStateKey(m, u)] /= EmptyAccount =>
               /\ BidExists(State, m, u)
               /\ pdas[BidVaultKey(m, u)].lamports
                      = minimum_balance(0) + BidRecord(State, m, u).amount

\* after an AcceptBid closed one bid pair: a listing pair and another bid pair
\* exist, and a wallet that bid before has neither bid account
C21_Witness ==
    /\ accepts = 1
    /\ \E m \in Mints, s \in Users, b \in Users, c \in owed :
           /\ ListingExists(State, m, s) /\ pdas[ListVaultKey(m, s)] /= EmptyAccount
           /\ BidExists(State, m, b) /\ pdas[BidVaultKey(m, b)] /= EmptyAccount
           /\ pdas[BidStateKey(m, c)] = EmptyAccount /\ pdas[BidVaultKey(m, c)] = EmptyAccount

(***************************************************************************)
(* C22: a listing of (asset, seller) only moves forward through NotListed, *)
(* Listed, Settled, Closed.  While its record exists settled never goes    *)
(* back from true to false; it becomes settled only by a successful        *)
(* AcceptBid on the existing, unsettled listing; and it is closed only by  *)
(* the seller's DeList while unsettled or by a ClaimAssetOnSuccess while   *)
(* settled.                                                                *)
(***************************************************************************)
\* the request with result r closes the listing of (m, s)
ClosesListing(r, m, s) ==
    ListingExists(State, m, s) /\ ~ListingExists(Execute(State, r), m, s)

ListingClosedInOrder ==
    \A m \in Mints, s \in Users :
        /\ \A acc \in DeListRequests :
               ClosesListing(process_delist(State, acc), m, s)
                   => acc.signer = s /\ ~Settled(State, m, s)
        /\ \A acc \in WithdrawNFTRequests :
               ClosesListing(process_withdraw_nft_on_success(State, acc), m, s)
                   => acc.lister = s /\ Settled(State, m, s)
        /\ \A acc \in ListRequests, amount \in Amounts :
               ~ClosesListing(process_list(State, acc, amount), m, s)
        /\ \A acc \in BidRequests, amount \in Amounts :
               ~ClosesListing(process_bid(State, acc, amount), m, s)
        /\ \A acc \in WithdrawBidRequests : ~ClosesListing(process_withdraw_bid(State, acc), m, s)
        /\ \A acc \in AcceptBidRequests : ~ClosesListing(process_accept_bid(State, acc), m, s)
        /\ \A acc \in RefundRequests : ~ClosesListing(process_refund(State, acc), m, s)
        /\ \A r \in PlatformResults : ~ClosesListing(r, m, s)

ListingMovesForward ==
    \A m \in Mints, s \in Users :
        /\ (Settled(State, m, s) /\ ListingExists(State', m, s)) => Settled(State', m, s)
        /\ (~Settled(State, m, s) /\ Settled(State', m, s)) =>
               /\ ListingExists(State, m, s)
               /\ accepts' = accepts + 1

C22_ListingLifecycle ==
    /\ []ListingClosedInOrder
    /\ [][ListingMovesForward]_vars

(***************************************************************************)
(* C23: the stored platform fee has no effect on settlement.  From two     *)
(* ledgers that differ only in the stored fee, every request of every      *)
(* operation returns the same result and leaves ledgers that again differ  *)
(* at most in the stored fee; a successful AcceptBid credits the seller    *)
(* the full bid amount.                                                    *)
(***************************************************************************)
\* the ledger st with the platform fee replaced by f, when the record exists
WithFee(st, f) ==
    IF st.pdas[PlatformKey].space = STATESIZE
    THEN [st EXCEPT !.pdas[PlatformKey].data[3] = f]
    ELSE st
\* the two ledgers are equal but for the stored fee
SameButFee(a, b) == WithFee(a, 0) = WithFee(b, 0)
\* r1, from the current ledger, and r2, from the ledger with another fee, agree
SameOutcome(r1, r2, f) ==
    /\ r1.err = r2.err
    /\ SameButFee(Execute(State, r1), Execute(WithFee(State, f), r2))

C23_FeeHasNoEffect ==
    \A f \in Fees :
        LET other == WithFee(State, f)
        IN other /= State =>
           /\ \A acc \in ListRequests, amount \in Amounts :
                  SameOutcome(process_list(State, acc, amount),
                              process_list(other, acc, amount), f)
           /\ \A acc \in DeListRequests :
                  SameOutcome(process_delist(State, acc), process_delist(other, acc), f)
           /\ \A acc \in BidRequests, amount \in Amounts :
                  SameOutcome(process_bid(State, acc, amount),
                              process_bid(other, acc, amount), f)
           /\ \A acc \in WithdrawBidRequests :
                  SameOutcome(process_withdraw_bid(State, acc),
                              process_withdraw_bid(other, acc), f)
           /\ \A acc \in AcceptBidRequests :
                  LET r1 == process_accept_bid(State, acc)
                      r2 == process_accept_bid(other, acc)
                      amount == BidRecord(State, acc.mint, acc.bidder).amount
                  IN /\ SameOutcome(r1, r2, f)
                     /\ (r1.err = "Ok" /\ acc.signer /= acc.bidder) =>
                            /\ r1.st.wallets[acc.signer] = wallets[acc.signer] + amount
                            /\ r2.st.wallets[acc.signer] = wallets[acc.signer] + amount
           /\ \A acc \in WithdrawNFTRequests :
                  SameOutcome(process_withdraw_nft_on_success(State, acc),
                              process_withdraw_nft_on_success(other, acc), f)
           /\ \A acc \in RefundRequests :
                  SameOutcome(process_refund(State, acc), process_refund(other, acc), f)
           /\ \A acc \in PlatformRequests(Users), authority \in Users, platform_fee \in Fees :
                  /\ SameOutcome(process_init_platform(State, acc, authority, platform_fee),
                                 process_init_platform(other, acc, authority, platform_fee), f)
                  /\ SameOutcome(process_change_authority(State, acc, authority),
                                 process_change_authority(other, acc, authority), f)
                  /\ SameOutcome(process_change_fee(State, acc, platform_fee),
                                 process_change_fee(other, acc, platform_fee), f)

\* the platform stores a fee above zero and below a bid that its seller can accept
C23_Witness ==
    \E acc \in AcceptBidRequests :
        /\ PlatformInitialized(State)
        /\ PlatformRecord(State).platform_fee > 0
        /\ acc.signer /= acc.bidder
        /\ process_accept_bid(State, acc).err = "Ok"
        /\ PlatformRecord(State).platform_fee < BidRecord(State, acc.mint, acc.bidder).amount
        /\ WithFee(State, 0) /= State

(***************************************************************************)
(* C24: a successful List creates the listing state and the listing vault  *)
(* at the addresses derived from (asset, caller), charges both reserves to *)
(* the caller, moves exactly one unit from the caller's token account into *)
(* the vault and writes the record {lister = caller, mint, amount = ask,   *)
(* success = false, successful_buyer = zero address}, nothing else         *)
(* changing; List fails when the token account passed is not owned by the  *)
(* caller or is not for the mint passed.                                   *)
(***************************************************************************)
C24_ListEffects ==
    \A acc \in ListRequests, amount \in Amounts :
        LET r == process_list(State, acc, amount)
            after == Execute(State, r)
            state_key == ListStateKey(acc.mint, acc.initializer)
            vault_key == ListVaultKey(acc.mint, acc.initializer)
            record == [lister |-> acc.initializer, amount |-> amount, mint |-> acc.mint,
                       success |-> FALSE, successful_buyer |-> ZERO_PUBKEY]
        IN /\ r.err = "Ok" =>
                /\ pdas[state_key] = EmptyAccount /\ pdas[vault_key] = EmptyAccount
                /\ after.pdas =
                     [pdas EXCEPT
                        ![state_key] = [lamports |-> minimum_balance(LISTESCROWSTATE),
                                        owner |-> PROGRAM_ID, space |-> LISTESCROWSTATE,
                                        data |-> ListEscrowState_pack(record)],
                        ![vault_key] = [lamports |-> minimum_balance(TOKEN_ACCOUNT_LEN),
                                        owner |-> SPL_TOKEN_ID, space |-> TOKEN_ACCOUNT_LEN,
                                        data |-> <<acc.mint, state_key, 1, 1>>]]
                /\ ListEscrowState_unpack(after.pdas[state_key]) = Ok(record)
                /\ after.wallets =
                     [wallets EXCEPT ![acc.initializer] =
                        @ - minimum_balance(LISTESCROWSTATE) - minimum_balance(TOKEN_ACCOUNT_LEN)]
                /\ tokens[acc.token_account].owner = acc.initializer
                /\ tokens[acc.token_account].mint = acc.mint
                /\ after.tokens = [tokens EXCEPT ![acc.token_account].amount = @ - 1]
           /\ tokens[acc.token_account].owner /= acc.initializer => Rejected(State, r)
           /\ tokens[acc.token_account].mint /= acc.mint => Rejected(State, r)

\* a List that succeeds, while the same caller's List with another wallet's token
\* account or for another mint of the token program does not
C24_Witness ==
    \E u \in Users, m \in Mints, amount \in Amounts :
        LET a == ListAccounts(u, m)
        IN /\ process_list(State, a, amount).err = "Ok"
           /\ \E f \in ListFaults(a) :
                 /\ f.is_signer /\ tokens[f.token_account].owner /= u
                 /\ process_list(State, f, amount).err = "InvalidAccountData"
           /\ \E f \in ListFaults(a) :
                 /\ f.is_signer /\ MintOwner(f.mint) = SPL_TOKEN_ID
                 /\ tokens[f.token_account].mint /= f.mint
                 /\ process_list(State, f, amount).err = "InvalidAccountData"

(***************************************************************************)
(* C25: a successful Bid creates the bid state and the bid vault at the    *)
(* addresses derived from (asset, bidder), debits the bidder by the bid    *)
(* amount plus the two reserves, leaves the vault holding the bid amount   *)
(* plus its reserve and writes the record {bidder = caller, mint, amount}, *)
(* nothing else changing.                                                  *)
(***************************************************************************)
C25_BidEffects ==
    \A acc \in BidRequests, amount \in Amounts :
        LET r == process_bid(State, acc, amount)
            after == Execute(State, r)
            state_key == BidStateKey(acc.mint, acc.initializer)
            vault_key == BidVaultKey(acc.mint, acc.initializer)
            record == [bidder |-> acc.initializer, amount |-> amount, mint |-> acc.mint]
        IN r.err = "Ok" =>
             /\ pdas[state_key] = EmptyAccount /\ pdas[vault_key] = EmptyAccount
             /\ after.pdas =
                  [pdas EXCEPT
                     ![state_key] = [lamports |-> minimum_balance(BIDESCROWSTATE),
                                     owner |-> PROGRAM_ID, space |-> BIDESCROWSTATE,
                                     data |-> BidEscrowState_pack(record)],
                     ![vault_key] = [lamports |-> minimum_balance(0) + amount,
                                     owner |-> PROGRAM_ID, space |-> 0,
                                     data |-> ZeroData(0)]]
             /\ BidEscrowState_unpack(after.pdas[state_key]) = Ok(record)
             /\ after.wallets =
                  [wallets EXCEPT ![acc.initializer] =
                     @ - amount - minimum_balance(BIDESCROWSTATE) - minimum_balance(0)]
             /\ after.tokens = tokens

\* a Bid that succeeds, placed by a wallet that has already been paid or refunded
\* an earlier one
C25_Witness ==
    \E acc \in BidRequests, amount \in Amounts :
        /\ process_bid(State, acc, amount).err = "Ok"
        /\ wallets[acc.initializer] /= InitialLamports

(***************************************************************************)
(* C26: instruction decoding rejects every buffer whose length differs     *)
(* from the fixed size of its opcode (41 bytes for opcode 0, 33 for 1, 9   *)
(* for 2, 3 and 5, 1 for 4, 6, 7, 8 and 9): such a buffer gives a decode   *)
(* error and never an instruction.                                         *)
(***************************************************************************)
\* the opcode byte and the documented fields
FixedSize(tag) ==
    IF tag = 0 THEN 41
    ELSE IF tag = 1 THEN 33
    ELSE IF tag \in {2, 3, 5} THEN 9
    ELSE 1

C26_WrongLengthRejected ==
    (/\ call.fn = "NFTInstruction::unpack"
     /\ call.input /= <<>>
     /\ Head(call.input) \in 0..9
     /\ Len(call.input) /= FixedSize(Head(call.input)))
        => call.output.err /= "Ok"

(***************************************************************************)
(* C27: instruction decoding fails with InvalidInstruction on an empty     *)
(* buffer or a first byte outside 0..9; for opcode 0 with InvalidAuthority *)
(* when fewer than 32 bytes follow and with InvalidPlatformFee when what   *)
(* follows the 32 is not 8 bytes; for opcode 1 with InvalidAuthority when  *)
(* other than 32 bytes follow; for opcodes 2, 3 and 5 with                 *)
(* InvalidInstructionData when other than 8 bytes follow; and a buffer of  *)
(* its opcode's size decodes to that operation, the u64 field read         *)
(* big-endian.                                                             *)
(***************************************************************************)
\* the number eight bytes stand for, the first the most significant
BigEndianValue(bytes) ==
    LET term[i \in 0..8] ==
            IF i = 0 THEN 0
            ELSE term[i - 1] + (IF bytes[i] = 0 THEN 0 ELSE bytes[i] * 256 ^ (8 - i))
    IN term[8]

C27_DecodeClassification ==
    call.fn = "NFTInstruction::unpack" =>
        LET input == call.input
            out == call.output
            tag == Head(input)
            rest == Tail(input)
        IN IF input = <<>> THEN out = Err("InvalidInstruction")
           ELSE /\ tag \notin 0..9 => out = Err("InvalidInstruction")
                /\ (tag = 0 /\ Len(rest) < 32) => out = Err("InvalidAuthority")
                /\ (tag = 0 /\ Len(rest) >= 32 /\ Len(rest) /= 40) =>
                       out = Err("InvalidPlatformFee")
                /\ (tag = 0 /\ Len(rest) = 40) =>
                       out = Ok([op |-> "Initialize", authority |-> SubSeq(rest, 1, 32),
                                 platform_fee |-> BigEndianValue(SubSeq(rest, 33, 40))])
                /\ (tag = 1 /\ Len(rest) /= 32) => out = Err("InvalidAuthority")
                /\ (tag = 1 /\ Len(rest) = 32) =>
                       out = Ok([op |-> "ChangeAuthority", authority |-> rest])
                /\ (tag \in {2, 3, 5} /\ Len(rest) /= 8) =>
                       out = Err("InvalidInstructionData")
                /\ (tag = 2 /\ Len(rest) = 8) =>
                       out = Ok([op |-> "ChangeFee", platform_fee |-> BigEndianValue(rest)])
                /\ (tag = 3 /\ Len(rest) = 8) =>
                       out = Ok([op |-> "List", amount |-> BigEndianValue(rest)])
                /\ (tag = 5 /\ Len(rest) = 8) =>
                       out = Ok([op |-> "Bid", amount |-> BigEndianValue(rest)])
                /\ (tag = 4 /\ rest = <<>>) => out = Ok([op |-> "DeList"])
                /\ (tag = 6 /\ rest = <<>>) => out = Ok([op |-> "WithdrawBid"])
                /\ (tag = 7 /\ rest = <<>>) => out = Ok([op |-> "AcceptBid"])
                /\ (tag = 8 /\ rest = <<>>) => out = Ok([op |-> "WithdrawNFTOnSuccess"])
                /\ (tag = 9 /\ rest = <<>>) => out = Ok([op |-> "RefundUser"])

\* a List instruction decoded whose amount has more than one byte that is not zero
C27_Witness ==
    /\ call.fn = "NFTInstruction::unpack"
    /\ call.input = <<3, 0, 0, 0, 0, 1, 2, 3, 4>>
    /\ call.output = Ok([op |-> "List", amount |-> 16909060])

(***************************************************************************)
(* C28: round trip of the three records.  Unpacking what pack wrote gives  *)
(* the record back, and packing what unpack read from a valid buffer (of   *)
(* the record's length, every bool byte 0 or 1) gives the buffer back.     *)
(***************************************************************************)
C28_RoundTrip ==
    /\ call.fn = "PlatformState::pack" =>
           /\ Len(call.output) = STATESIZE
           /\ PlatformState_unpack_unchecked(call.output) = Ok(call.input)
    /\ call.fn = "ListEscrowState::pack" =>
           /\ Len(call.output) = LISTESCROWSTATE
           /\ ListEscrowState_unpack_unchecked(call.output) = Ok(call.input)
    /\ call.fn = "BidEscrowState::pack" =>
           /\ Len(call.output) = BIDESCROWSTATE
           /\ BidEscrowState_unpack_unchecked(call.output) = Ok(call.input)
    /\ (/\ call.fn = "PlatformState::unpack_unchecked"
        /\ Len(call.input) = STATESIZE /\ call.input[1] \in {0, 1}) =>
           /\ call.output.err = "Ok"
           /\ PlatformState_pack_into_slice(call.output.st) = call.input
    /\ (/\ call.fn = "ListEscrowState::unpack_unchecked"
        /\ Len(call.input) = LISTESCROWSTATE /\ call.input[73] \in {0, 1}) =>
           /\ call.output.err = "Ok"
           /\ ListEscrowState_pack_into_slice(call.output.st) = call.input
    /\ (/\ call.fn = "BidEscrowState::unpack_unchecked"
        /\ Len(call.input) = BIDESCROWSTATE) =>
           /\ call.output.err = "Ok"
           /\ BidEscrowState_pack_into_slice(call.output.st) = call.input

\* a platform record packed whose fee and nonce differ and are not zero
C28_Witness ==
    /\ call.fn = "PlatformState::pack"
    /\ call.input.is_initialized
    /\ call.input.platform_fee = 16909060
    /\ call.input.nonce = 100
    /\ call.input.authority[32] = 224

(***************************************************************************)
(* C29: unpacking a record fails, returning an error and no record, on     *)
(* every input whose length is not the record's (49, 105, 72) and on every *)
(* input whose bool byte (is_initialized, success) is neither 0 nor 1.     *)
(***************************************************************************)
C29_UnpackRejects ==
    /\ (/\ call.fn = "PlatformState::unpack_unchecked"
        /\ (Len(call.input) /= 49 \/ call.input[1] \notin {0, 1})) =>
           call.output = Err("InvalidAccountData")
    /\ (/\ call.fn = "ListEscrowState::unpack_unchecked"
        /\ (Len(call.input) /= 105 \/ call.input[73] \notin {0, 1})) =>
           call.output = Err("InvalidAccountData")
    /\ (/\ call.fn = "BidEscrowState::unpack_unchecked"
        /\ Len(call.input) /= 72) =>
           call.output = Err("InvalidAccountData")

\* a listing record unpacked from 105 bytes whose success byte is 2
C29_Witness ==
    /\ call.fn = "ListEscrowState::unpack_unchecked"
    /\ Len(call.input) = LISTESCROWSTATE
    /\ call.input[73] = 2

(***************************************************************************)
(* C30: authority handover.  After a successful ChangeAuthority(new)       *)
(* signed by the authority old, new /= old, the ChangeAuthority, ChangeFee *)
(* and RefundBidder requests signed by old fail with InvalidAuthority and  *)
(* the same requests signed by new succeed, and this stays so until the    *)
(* next successful ChangeAuthority: no other request changes the           *)
(* authority.  ChangeAuthority leaves the fee as it was and ChangeFee      *)
(* leaves the authority as it was.                                         *)
(***************************************************************************)
\* in the ledger st the three authority-only requests signed by u all return err
AuthorityRequestsReturn(st, u, err) ==
    /\ \A authority \in Users :
           process_change_authority(st, PlatformAccounts(u), authority).err = err
    /\ \A platform_fee \in Fees :
           process_change_fee(st, PlatformAccounts(u), platform_fee).err = err
    /\ \A b \in Users, m \in Mints :
           process_refund(st, RefundAccounts(u, b, m)).err = err

\* no request but a successful ChangeAuthority changes the stored authority
AuthorityKept(r) ==
    (PlatformInitialized(State) /\ r.err = "Ok") =>
        PlatformRecord(Execute(State, r)).authority = PlatformRecord(State).authority

C30_AuthorityHandover ==
    /\ \A old \in Users, new \in Users :
           LET r == process_change_authority(State, PlatformAccounts(old), new)
               after == Execute(State, r)
           IN (new /= old /\ r.err = "Ok") =>
                /\ PlatformRecord(State).authority = old
                /\ PlatformRecord(after).authority = new
                /\ PlatformRecord(after).platform_fee = PlatformRecord(State).platform_fee
                /\ AuthorityRequestsReturn(after, old, "InvalidAuthority")
                /\ AuthorityRequestsReturn(after, new, "Ok")
                /\ \A third \in Users \ {new} :
                       AuthorityRequestsReturn(after, third, "InvalidAuthority")
    /\ PlatformInitialized(State) =>
           /\ AuthorityRequestsReturn(State, PlatformRecord(State).authority, "Ok")
           /\ \A u \in Users \ {PlatformRecord(State).authority} :
                  AuthorityRequestsReturn(State, u, "InvalidAuthority")
    /\ \A acc \in PlatformRequests(Users), platform_fee \in Fees, authority \in Users :
           /\ AuthorityKept(process_change_fee(State, acc, platform_fee))
           /\ AuthorityKept(process_init_platform(State, acc, authority, platform_fee))
    /\ \A r \in TradingResults : AuthorityKept(r)

\* the authority can hand over to another wallet while a bid that the authority
\* alone may refund is held
C30_Witness ==
    \E old \in Users, new \in Users, b \in Users, m \in Mints :
        /\ new /= old /\ b /= old /\ b /= new
        /\ BidExists(State, m, b)
        /\ process_change_authority(State, PlatformAccounts(old), new).err = "Ok"
        /\ process_refund(State, RefundAccounts(old, b, m)).err = "Ok"
        /\ process_refund(State, RefundAccounts(new, b, m)).err = "InvalidAuthority"

(***************************************************************************)
(* C31: no bid is locked up.  In every reachable state in which the bid    *)
(* escrow of (mint, bidder) exists, a WithdrawBid signed by the bidder     *)
(* returns Ok, closes both bid accounts and credits the bidder the bid     *)
(* amount and both reserves, whether the mint is not listed, listed or     *)
(* settled with another buyer, and nothing else changes.                   *)
(***************************************************************************)
C31_BidNeverLocked ==
    \A m \in Mints, u \in Users :
        BidExists(State, m, u) =>
            LET r == process_withdraw_bid(State, WithdrawBidAccounts(u, m))
                after == Execute(State, r)
            IN /\ r.err = "Ok"
               /\ after.wallets =
                    [wallets EXCEPT ![u] = @ + BidRecord(State, m, u).amount
                                             + minimum_balance(BIDESCROWSTATE)
                                             + minimum_balance(0)]
               /\ after.pdas = [pdas EXCEPT ![BidStateKey(m, u)] = EmptyAccount,
                                            ![BidVaultKey(m, u)] = EmptyAccount]
               /\ after.tokens = tokens

\* a bid is held while a listing of the mint is settled with another buyer
C31_Witness ==
    \E m \in Mints, u \in Users, s \in Users :
        /\ BidExists(State, m, u)
        /\ Settled(State, m, s)
        /\ ListingRecord(State, m, s).successful_buyer /= u
        /\ process_withdraw_bid(State, WithdrawBidAccounts(u, m)).err = "Ok"

(***************************************************************************)
(* C32: custody of the asset.  In every reachable state the one unit of    *)
(* the mint is in exactly one place, a user's token account or a listing   *)
(* vault.  It enters a vault only by List and leaves one only by DeList    *)
(* or ClaimAssetOnSuccess; Bid, WithdrawBid, AcceptBid, RefundBidder,      *)
(* Initialize, ChangeAuthority and ChangeFee leave every place as it was.  *)
(***************************************************************************)
\* the units each listing vault holds
VaultUnits(st) ==
    [k \in {ListVaultKey(m, u) : m \in Mints, u \in Users} |->
        IF IsTokenAccount(st.pdas[k]) THEN st.pdas[k].data[3] ELSE 0]
\* the units each user's token account holds
WalletUnits(st) == [k \in TokenKeys |-> st.tokens[k].amount]
Custody(st) == [vaults |-> VaultUnits(st), users |-> WalletUnits(st)]

\* no vault holds less after the request than the vaults held before
NothingLeavesVault(r, before) ==
    LET after == Execute(State, r)
    IN after = State \/ \A k \in DOMAIN before : VaultUnits(after)[k] >= before[k]
\* no vault holds more after the request than the vaults held before
NothingEntersVault(r, before) ==
    LET after == Execute(State, r)
    IN after = State \/ \A k \in DOMAIN before : VaultUnits(after)[k] <= before[k]
\* every place holds after the request what the places held before
CustodyKept(r, before) ==
    LET after == Execute(State, r)
    IN after = State \/ Custody(after) = before

C32_AssetCustody ==
    LET vaults == VaultUnits(State)
        users == WalletUnits(State)
        custody == Custody(State)
    IN /\ \A m \in Mints :
              Cardinality({u \in Users : vaults[ListVaultKey(m, u)] = 1})
                + Cardinality({u \in Users : users[<<u, m>>] = 1}) = 1
       /\ \A k \in DOMAIN vaults : vaults[k] \in {0, 1}
       /\ \A k \in TokenKeys : users[k] \in {0, 1}
       /\ \A acc \in ListRequests, amount \in Amounts :
              NothingLeavesVault(process_list(State, acc, amount), vaults)
       /\ \A acc \in DeListRequests :
              NothingEntersVault(process_delist(State, acc), vaults)
       /\ \A acc \in WithdrawNFTRequests :
              NothingEntersVault(process_withdraw_nft_on_success(State, acc), vaults)
       /\ \A acc \in BidRequests, amount \in Amounts :
              CustodyKept(process_bid(State, acc, amount), custody)
       /\ \A acc \in WithdrawBidRequests :
              CustodyKept(process_withdraw_bid(State, acc), custody)
       /\ \A acc \in AcceptBidRequests :
              CustodyKept(process_accept_bid(State, acc), custody)
       /\ \A acc \in RefundRequests : CustodyKept(process_refund(State, acc), custody)
       /\ \A r \in PlatformResults : CustodyKept(r, custody)

\* the unit is in a listing vault while the listing is settled and a bid is held
C32_Witness ==
    \E m \in Mints, s \in Users, b \in Users :
        /\ VaultUnits(State)[ListVaultKey(m, s)] = 1
        /\ Settled(State, m, s)
        /\ BidExists(State, m, b)
        /\ \A u \in Users : WalletUnits(State)[<<u, m>>] = 0

(***************************************************************************)
(* C33: escrow isolation.  AcceptBid naming bidder B, WithdrawBid signed   *)
(* by B and RefundBidder naming B leave both accounts (record and          *)
(* balances) of every bid of another bidder as they were; Bid, WithdrawBid *)
(* and RefundBidder leave every listing state and listing vault as they    *)
(* were.                                                                   *)
(***************************************************************************)
\* the request left the bid accounts of every bidder but b as they were
OtherBidsKept(r, b) ==
    LET after == Execute(State, r)
    IN \A m \in Mints, u \in Users \ {b} :
           /\ after.pdas[BidStateKey(m, u)] = pdas[BidStateKey(m, u)]
           /\ after.pdas[BidVaultKey(m, u)] = pdas[BidVaultKey(m, u)]
\* the request left every listing's accounts as they were
ListingsKept(r) ==
    LET after == Execute(State, r)
    IN \A m \in Mints, u \in Users :
           /\ after.pdas[ListStateKey(m, u)] = pdas[ListStateKey(m, u)]
           /\ after.pdas[ListVaultKey(m, u)] = pdas[ListVaultKey(m, u)]

C33_EscrowIsolation ==
    /\ \A acc \in AcceptBidRequests :
           OtherBidsKept(process_accept_bid(State, acc), acc.bidder)
    /\ \A acc \in WithdrawBidRequests :
           LET r == process_withdraw_bid(State, acc)
           IN OtherBidsKept(r, acc.signer) /\ ListingsKept(r)
    /\ \A acc \in RefundRequests :
           LET r == process_refund(State, acc)
           IN OtherBidsKept(r, acc.bidder) /\ ListingsKept(r)
    /\ \A acc \in BidRequests, amount \in Amounts :
           ListingsKept(process_bid(State, acc, amount))

\* two bids and a listing are held, and the seller can accept one of the bids,
\* its bidder can withdraw it and the authority can refund it
C33_Witness ==
    \E m \in Mints, s \in Users, b \in Users, c \in Users, a \in Users :
        /\ b /= c
        /\ ListingExists(State, m, s)
        /\ BidExists(State, m, b) /\ BidExists(State, m, c)
        /\ process_accept_bid(State, AcceptBidAccounts(s, b, m)).err = "Ok"
        /\ process_withdraw_bid(State, WithdrawBidAccounts(b, m)).err = "Ok"
        /\ process_refund(State, RefundAccounts(a, b, m)).err = "Ok"

(***************************************************************************)
(* C34: in every reachable state the two accounts of each existing bid     *)
(* hold together the recorded amount plus the two reserves, so they hold   *)
(* at least the recorded amount: the subtraction total_lamports -          *)
(* bid_state.amount of AcceptBid never goes below zero, and what AcceptBid *)
(* returns to the bidder is exactly the two reserves.                      *)
(***************************************************************************)
\* the rent reserves of a bid's state account and vault
BidReserves == minimum_balance(BIDESCROWSTATE) + minimum_balance(0)

C34_BidFullyFunded ==
    /\ \A m \in Mints, u \in Users :
           BidExists(State, m, u) =>
               /\ BidHeld(State, m, u) = BidRecord(State, m, u).amount + BidReserves
               /\ BidHeld(State, m, u) >= BidRecord(State, m, u).amount
    /\ \A acc \in AcceptBidRequests :
           LET r == process_accept_bid(State, acc)
               amount == BidRecord(State, acc.mint, acc.bidder).amount
           IN /\ r.err /= "ArithmeticOverflow"
              /\ r.err = "Ok" =>
                     /\ BidHeld(State, acc.mint, acc.bidder) - amount = BidReserves
                     /\ Execute(State, r).wallets[acc.bidder] =
                            wallets[acc.bidder] + BidReserves
                              + (IF acc.signer = acc.bidder THEN amount ELSE 0)

\* a seller can accept the bid of another wallet
C34_Witness ==
    \E acc \in AcceptBidRequests :
        /\ acc.signer /= acc.bidder
        /\ BidExists(State, acc.mint, acc.bidder)
        /\ process_accept_bid(State, acc).err = "Ok"
        /\ wallets[acc.bidder] < InitialLamports - BidReserves

(***************************************************************************)
(* C35: Bid does not depend on a listing.  A Bid by a wallet that holds no *)
(* bid for the mint and can pay the amount and the reserves succeeds and   *)
(* locks the amount also when no listing of the mint exists; and a bid     *)
(* that was already held when a listing of the mint is created can be      *)
(* accepted by that listing's seller.                                      *)
(***************************************************************************)
NoListing(st, m) == \A s \in Users : ~ListingExists(st, m, s)

BidWithoutListing ==
    \A m \in Mints, u \in Users, amount \in Amounts :
        (/\ NoListing(State, m)
         /\ pdas[BidStateKey(m, u)] = EmptyAccount
         /\ pdas[BidVaultKey(m, u)] = EmptyAccount
         /\ wallets[u] >= amount + BidReserves) =>
            LET r == process_bid(State, BidAccounts(u, m), amount)
                after == Execute(State, r)
            IN /\ r.err = "Ok"
               /\ BidExists(after, m, u)
               /\ BidRecord(after, m, u).amount = amount
               /\ BidHeld(after, m, u) = amount + BidReserves
               /\ NoListing(after, m)

\* a step that creates a listing of a mint while a bid for the mint is held
LeftoverBidAccepted ==
    \A m \in Mints, s \in Users, b \in Users :
        (/\ NoListing(State, m)
         /\ BidExists(State, m, b)
         /\ ListingExists(State', m, s)) =>
            /\ BidExists(State', m, b)
            /\ process_accept_bid(State', AcceptBidAccounts(s, b, m)).err = "Ok"

C35_BidIndependentOfListing == []BidWithoutListing /\ [][LeftoverBidAccepted]_vars

\* an earlier listing was settled and is closed, no listing exists, a bid is
\* held, another wallet can bid and the asset's holder can list it again
C35_Witness ==
    \E m \in Mints, s \in Users, b \in Users, c \in Users, amount \in Amounts :
        /\ accepts >= 1
        /\ NoListing(State, m)
        /\ BidExists(State, m, b)
        /\ c /= b
        /\ process_bid(State, BidAccounts(c, m), amount).err = "Ok"
        /\ process_list(State, ListAccounts(s, m), amount).err = "Ok"

(***************************************************************************)
(* C36: Initialize takes the authority from the instruction, not from the  *)
(* signer.  A successful Initialize(authority A, fee F) signed by any      *)
(* wallet P writes the record {is_initialized = true, authority = A,       *)
(* platform_fee = F, nonce = 0}; in the ledger it leaves, ChangeAuthority, *)
(* ChangeFee and RefundBidder signed by A succeed, and signed by P they    *)
(* succeed only when P = A and fail with InvalidAuthority otherwise.       *)
(***************************************************************************)
C36_AuthorityFromPayload ==
    \A acc \in PlatformRequests(Users), A \in Users, F \in Fees :
        LET r == process_init_platform(State, acc, A, F)
            after == Execute(State, r)
            P == acc.initializer
        IN r.err = "Ok" =>
             /\ ~PlatformInitialized(State)
             /\ after.pdas[PlatformKey].data = <<1, A, F, 0>>
             /\ PlatformRecord(after) = [is_initialized |-> TRUE, authority |-> A,
                                         platform_fee |-> F, nonce |-> 0]
             /\ after.wallets = [wallets EXCEPT ![P] = @ - minimum_balance(STATESIZE)]
             /\ AuthorityRequestsReturn(after, A, "Ok")
             /\ AuthorityRequestsReturn(after, P,
                                        IF P = A THEN "Ok" ELSE "InvalidAuthority")

\* the platform is not initialized, a bid is held, and a wallet can initialize
\* the platform naming another wallet as the authority
C36_Witness ==
    \E P \in Users, A \in Users, F \in Fees, m \in Mints, b \in Users :
        /\ P /= A
        /\ ~PlatformInitialized(State)
        /\ BidExists(State, m, b)
        /\ process_init_platform(State, PlatformAccounts(P), A, F).err = "Ok"
====
